---------------------------- MODULE Spec2Model ----------------------------
(***************************************************************************)
(* DisasterShift backend: the query orchestration layer.                   *)
(*                                                                         *)
(*   backend/rag/sql_engine.py        the Analytics Store and its six      *)
(*                                    aggregation operations               *)
(*   backend/rag/query_router.py      route_and_query, the classifier      *)
(*   backend/services/chat_service.py chat_stream and the two providers    *)
(*   backend/routers/chat.py          event_generator (the SSE stream)     *)
(*                                                                         *)
(* Conventions.  An Optional[str] argument is a string and None is "":     *)
(* the code only ever tests such arguments for truthiness.  A nullable     *)
(* number (a SQL NULL, a missing JSON key) is <<>> and a present one is    *)
(* <<v>>.  Percentages and months are non-negative integers; a mean is     *)
(* the exact fraction <<sum, count>>; SQL ROUND(x, 1) is an integer number *)
(* of tenths and avg_next_12 an integer number of thousandths.             *)
(***************************************************************************)
EXTENDS Integers, Sequences, FiniteSets, TLC

VARIABLES
    conn,          \* sql_engine._conn: NotInitialised, or the two tables
    collection,    \* vectorstore._collection: the Knowledge Index
    embedder,      \* embeddings._model: loaded or not
    model,         \* model_service: _precomputed, _precomputed_by_state,
                   \* _prophet_forecasts
    app,           \* the process: where its startup (lifespan) stands
    log,           \* the context computations made so far, in order
    call,          \* the last analytics / router call: [op, args, result]
    request,       \* the chat request being served
    pc,            \* event_generator: the yield it is suspended at
    cs,            \* chat_stream: the yield it is suspended at
    events,        \* the events event_generator has yielded, in order
    yielded,       \* the tokens chat_stream has yielded, in order
    backend,       \* the generation backend: the chunks it has produced for
                   \* the request, in order, and how often it was called
    client         \* the consumer of the stream: its status, and how many
                   \* chunks the backend had produced and how many events
                   \* it had received when it disconnected

vars ==
    <<conn, collection, embedder, model, app, log,
      call, request, pc, cs, events, yielded, backend, client>>

\* What is loaded at startup.
resources == <<conn, collection, embedder, model, app>>

None == <<>>
Some(v) == <<v>>
NoneStr == ""

----------------------------------------------------------------------------
(* Bounds of the model.                                                    *)

MaxRows == 2          \* sector rows in model_predictions.json
MaxForecasts == 1     \* entries in prophet_state_forecasts.json
MaxLimit == 2         \* largest LIMIT the operations are called with
MaxTokens == 3        \* chunks the generation backend produces
MaxQLen == 2          \* words in an enumerated question
MaxChunks == 2        \* chunks in the Knowledge Index

----------------------------------------------------------------------------
(* Arithmetic helpers.                                                     *)

\* a / b rounded half away from zero, for a >= 0 and b > 0: SQL ROUND.
RoundDiv(a, b) == (2 * a + b) \div (2 * b)

RECURSIVE SumSeq(_)
SumSeq(s) == IF s = <<>> THEN 0 ELSE Head(s) + SumSeq(Tail(s))

RECURSIVE SumField(_, _)
\* SUM(f) over the rows of S, a NULL contributing nothing.
SumField(S, f) ==
    IF S = {} THEN 0
    ELSE LET r == CHOOSE x \in S : TRUE
         IN (IF r[f] = None THEN 0 ELSE r[f][1]) + SumField(S \ {r}, f)

\* COUNT(f): the rows of S whose f is not NULL.
CountField(S, f) == Cardinality({r \in S : r[f] # None})

\* AVG(f): NULL when no row has f, else the exact fraction <<sum, count>>.
AVG(S, f) ==
    IF CountField(S, f) = 0 THEN None
    ELSE Some(<<SumField(S, f), CountField(S, f)>>)

\* MAX(f) and MIN(f) over the rows that have f (at least one such row).
MAX(S, f) == CHOOSE v \in {r[f][1] : r \in {x \in S : x[f] # None}} :
                \A r \in {x \in S : x[f] # None} : v >= r[f][1]
MIN(S, f) == CHOOSE v \in {r[f][1] : r \in {x \in S : x[f] # None}} :
                \A r \in {x \in S : x[f] # None} : v =< r[f][1]

\* ROUND(a, 1) of a nullable fraction, in tenths.
Round1(a) == IF a = None THEN None ELSE Some(RoundDiv(10 * a[1][1], a[1][2]))
\* ROUND(a, 0) of a nullable fraction.
Round0(a) == IF a = None THEN None ELSE Some(RoundDiv(a[1][1], a[1][2]))

\* Order of two fractions <<n, d>>, d > 0.
FracGe(a, b) == a[1] * b[2] >= b[1] * a[2]

RECURSIVE OrderByDesc(_, _)
\* ORDER BY k DESC: the elements of S as a sequence, largest key first; k
\* maps each element to a fraction.  SQLite leaves the order of equal keys
\* open; one such order is taken.
OrderByDesc(S, k) ==
    IF S = {} THEN <<>>
    ELSE LET m == CHOOSE x \in S : \A y \in S : FracGe(k[x], k[y])
         IN <<m>> \o OrderByDesc(S \ {m}, k)

\* A LIMIT that is ignored: every row is returned.
NoLimit(s, n) == s

\* LIMIT n: the first n elements (all of them for a negative n, as SQLite).
Limit(s, n) == IF n < 0 \/ n >= Len(s) THEN s ELSE SubSeq(s, 1, n)

RECURSIVE SubsetsUpTo(_, _)
\* The subsets of U with at most n elements.
SubsetsUpTo(U, n) ==
    IF n = 0 THEN {{}}
    ELSE LET P == SubsetsUpTo(U, n - 1)
         IN P \cup {s \cup {x} : s \in P, x \in U}

RECURSIVE SeqsUpTo(_, _)
\* The sequences over U with at most n elements.
SeqsUpTo(U, n) ==
    IF n = 0 THEN {<<>>}
    ELSE LET P == SeqsUpTo(U, n - 1)
         IN P \cup {Append(s, x) : s \in P, x \in U}

Range(s) == {s[i] : i \in DOMAIN s}


----------------------------------------------------------------------------
(* Strings.  str.upper() and str.lower() on the strings of the model.      *)

Upper(s) ==
    CASE s = "fl" -> "FL"
      [] s = "la" -> "LA"
      [] s = "in" -> "IN"
      [] s = "Florida" -> "FLORIDA"
      [] OTHER -> s

Lower(s) ==
    CASE s = "FL" -> "fl"
      [] s = "LA" -> "la"
      [] s = "IN" -> "in"
      [] s = "Hurricane" -> "hurricane"
      [] s = "Flood" -> "flood"
      [] s = "Earthquake" -> "earthquake"
      [] s = "HR" -> "hr"
      [] s = "Insurance" -> "insurance"
      [] OTHER -> s

----------------------------------------------------------------------------
(* sql_engine.py: the tables of constants.                                 *)

FIPS_STATE_MAP ==
    [p \in {"04", "06", "08", "09", "11", "12", "13", "17", "18", "22",
            "24", "25", "26", "27", "29", "32", "36", "37", "39", "40",
            "41", "42", "44", "47", "48", "49", "51", "53", "55"} |->
        CASE p = "04" -> "AZ" [] p = "06" -> "CA" [] p = "08" -> "CO"
          [] p = "09" -> "CT" [] p = "11" -> "DC" [] p = "12" -> "FL"
          [] p = "13" -> "GA" [] p = "17" -> "IL" [] p = "18" -> "IN"
          [] p = "22" -> "LA" [] p = "24" -> "MD" [] p = "25" -> "MA"
          [] p = "26" -> "MI" [] p = "27" -> "MN" [] p = "29" -> "MO"
          [] p = "32" -> "NV" [] p = "36" -> "NY" [] p = "37" -> "NC"
          [] p = "39" -> "OH" [] p = "40" -> "OK" [] p = "41" -> "OR"
          [] p = "42" -> "PA" [] p = "44" -> "RI" [] p = "47" -> "TN"
          [] p = "48" -> "TX" [] p = "49" -> "UT" [] p = "51" -> "VA"
          [] p = "53" -> "WA" [] OTHER -> "WI"]

PROPHET_TYPE_MAP ==
    [k \in {"Fire", "Flood", "Hurricane", "Severe_Storm", "Tornado", "Typhoon"} |->
        CASE k = "Fire" -> "fire" [] k = "Flood" -> "flood"
          [] k = "Hurricane" -> "hurricane"
          [] k = "Severe_Storm" -> "severe_storm"
          [] k = "Tornado" -> "tornado" [] OTHER -> "typhoon"]

REGION_GROUPS ==
    [r \in {"southeast", "gulf_coast", "midwest", "west_coast", "northeast",
            "southwest"} |->
        CASE r = "southeast" -> <<"FL", "GA", "NC", "SC", "VA", "AL", "MS", "TN">>
          [] r = "gulf_coast" -> <<"FL", "LA", "TX", "MS", "AL">>
          [] r = "midwest" -> <<"IL", "IN", "MI", "MN", "MO", "OH", "WI">>
          [] r = "west_coast" -> <<"CA", "OR", "WA">>
          [] r = "northeast" -> <<"NY", "PA", "MA", "CT", "RI">>
          [] OTHER -> <<"AZ", "TX", "NM", "CO", "UT">>]

\* dict.get(key, default)
Get(d, k, default) == IF k \in DOMAIN d THEN d[k] ELSE default

----------------------------------------------------------------------------
(* The two JSON files init_db reads.                                       *)
(*                                                                         *)
(* model_predictions.json is a list of entries {fips_code, disaster_type,  *)
(* predictions: {sector: data}}; it is held flat, one item per (entry,     *)
(* sector), which is what init_db's two nested loops walk.  The first two  *)
(* characters of a FIPS code are kept beside it.                           *)

FileFips == {"12001", "12086", "22071"}

\* fips[:2]
Prefix2(fips) ==
    CASE fips = "12001" -> "12"
      [] fips = "12086" -> "12"
      [] fips = "22071" -> "22"
      [] fips = "01001" -> "01"
      [] OTHER -> ""

FileSectors == {"Construction", "Healthcare"}

\* The (county, disaster) pairs the file may hold an entry for.
FileEntries ==
    {<<f, "hurricane">> : f \in FileFips} \cup {<<"12001", "flood">>}

\* What a sector's data may be: the keys a dict has, a missing key <<>>.
Data(loss, change, rec, peak) ==
    [job_loss_pct |-> loss, job_change_pct |-> change,
     recovery_months |-> rec, peak_month |-> peak]

FileData ==
    { Data(Some(30), None, Some(12), None),
      Data(Some(10), None, Some(2), None),
      Data(None, Some(5), None, Some(3)),
      Data(None, Some(8), None, None) }

FileItems ==
    {[fips_code |-> e[1], disaster_type |-> e[2], sector |-> s, data |-> d] :
        e \in FileEntries, s \in FileSectors, d \in FileData}

ItemKey(i) == <<i.fips_code, i.disaster_type, i.sector>>

\* A predictions file: at most MaxRows items, one per (county, disaster,
\* sector) since entries are keyed by county and disaster and a dict holds
\* a sector once.
PredictionFiles ==
    {F \in SubsetsUpTo(FileItems, MaxRows) :
        \A a, b \in F : ItemKey(a) = ItemKey(b) => a = b}

\* prophet_state_forecasts.json: a dict from keys such as "FL_Hurricane",
\* held as the key split at its first "_", to the entry's predicted_counts.
ProphetKeys == {<<"FL", "Hurricane">>, <<"LA", "Hurricane">>, <<"metadata">>}
ProphetCounts == {<<>>, <<1, 2>>, <<4>>}

ProphetItems ==
    {[key |-> k, predicted_counts |-> c] : k \in ProphetKeys, c \in ProphetCounts}

ProphetFiles ==
    {F \in SubsetsUpTo(ProphetItems, MaxForecasts) :
        \A a, b \in F : a.key = b.key => a = b}

----------------------------------------------------------------------------
(* sql_engine.init_db                                                      *)

NotInitialised == [initialised |-> FALSE, employment_impact |-> {},
                   disaster_forecast |-> {}]

\* A row whose missing percentage is stored as 0, not NULL.
ImpactRowZeroFilled(i) ==
    [fips_code |-> i.fips_code,
     state |-> Get(FIPS_STATE_MAP, Prefix2(i.fips_code), ""),
     disaster_type |-> i.disaster_type,
     sector |-> i.sector,
     job_loss_pct |-> IF i.data.job_loss_pct = None THEN Some(0)
                      ELSE i.data.job_loss_pct,
     job_change_pct |-> IF i.data.job_change_pct = None THEN Some(0)
                        ELSE i.data.job_change_pct,
     recovery_months |-> i.data.recovery_months,
     peak_month |-> i.data.peak_month]

\* One employment_impact row per item (the region column, which no query
\* reads, is left out).
ImpactRow(i) ==
    [fips_code |-> i.fips_code,
     state |-> Get(FIPS_STATE_MAP, Prefix2(i.fips_code), ""),
     disaster_type |-> i.disaster_type,
     sector |-> i.sector,
     job_loss_pct |-> i.data.job_loss_pct,
     job_change_pct |-> i.data.job_change_pct,
     recovery_months |-> i.data.recovery_months,
     peak_month |-> i.data.peak_month]

\* round(sum(predicted) / len(predicted), 3) if predicted else 0.0, in
\* thousandths.
AvgNext12(predicted) ==
    IF predicted = <<>> THEN 0
    ELSE RoundDiv(1000 * SumSeq(predicted), Len(predicted))

ForecastRow(i) ==
    [state |-> i.key[1],
     disaster_type |-> Get(PROPHET_TYPE_MAP, i.key[2], Lower(i.key[2])),
     avg_next_12 |-> Some(AvgNext12(i.predicted_counts))]

init_db(predictions, prophet) ==
    [initialised |-> TRUE,
     employment_impact |-> {ImpactRow(i) : i \in predictions},
     disaster_forecast |->
        {ForecastRow(i) : i \in {x \in prophet : Len(x.key) = 2}}]

\* What a call returns: a string, held as its sequence of lines ("" is
\* <<>>), or an exception.
Return(lines) == [raised |-> FALSE, error |-> "", text |-> lines]
Raise(e) == [raised |-> TRUE, error |-> e, text |-> <<>>]

----------------------------------------------------------------------------
(* sql_engine.py: the six operations.  Each takes the connection as its    *)
(* first argument (the module global _conn).                               *)

\* Query 1: sector ranking for a state and a disaster.
\* where_clause is "" when neither filter is given, and the statement then
\* reads "FROM employment_impact  AND job_loss_pct IS NOT NULL": SQLite
\* rejects it (sqlite3.OperationalError) at the first execute.
query_sector_ranking(c, state, disaster_type) ==
    IF ~c.initialised THEN Raise("RuntimeError")
    ELSE
    LET where == (IF state # "" THEN <<"state">> ELSE <<>>)
                 \o (IF disaster_type # "" THEN <<"disaster_type">> ELSE <<>>)
        Sel == {r \in c.employment_impact :
                   /\ (state # "" => r.state = Upper(state))
                   /\ (disaster_type # "" => r.disaster_type = Lower(disaster_type))}
        LossSel == {r \in Sel : r.job_loss_pct # None}
        SurgeSel == {r \in Sel : r.job_change_pct # None}
        LossOf(s) == {r \in LossSel : r.sector = s}
        SurgeOf(s) == {r \in SurgeSel : r.sector = s}
        LossGroups == {[sector |-> s,
                        loss |-> AVG(LossOf(s), "job_loss_pct"),
                        recovery |-> AVG(LossOf(s), "recovery_months")] :
                          s \in {r.sector : r \in LossSel}}
        SurgeGroups == {[sector |-> s,
                         surge |-> AVG(SurgeOf(s), "job_change_pct"),
                         peak |-> AVG(SurgeOf(s), "peak_month")] :
                           s \in {r.sector : r \in SurgeSel}}
        loss_rows == OrderByDesc(LossGroups, [x \in LossGroups |-> x.loss[1]])
        surge_rows == OrderByDesc(SurgeGroups, [x \in SurgeGroups |-> x.surge[1]])
    IN  IF where = <<>> THEN Raise("OperationalError")
        ELSE IF loss_rows = <<>> /\ surge_rows = <<>> THEN Return(<<>>)
        ELSE Return(
            <<[kind |-> "title", state |-> state, disaster_type |-> disaster_type]>>
            \o (IF loss_rows = <<>> THEN <<>>
                ELSE <<[kind |-> "loss_header"]>>
                     \o [i \in 1..Len(loss_rows) |->
                            [kind |-> "loss", rank |-> i,
                             sector |-> loss_rows[i].sector,
                             loss |-> loss_rows[i].loss,
                             recovery |-> loss_rows[i].recovery]])
            \o (IF surge_rows = <<>> THEN <<>>
                ELSE <<[kind |-> "surge_header"]>>
                     \o [i \in 1..Len(surge_rows) |->
                            [kind |-> "surge", rank |-> i,
                             sector |-> surge_rows[i].sector,
                             surge |-> surge_rows[i].surge,
                             peak |-> surge_rows[i].peak]]))

\* employment_impact JOIN disaster_forecast ON state, disaster_type: one
\* row per matching pair, the forecast's frequency beside the impact row.
Joined(c) ==
    {[state |-> p[1].state, sector |-> p[1].sector,
      disaster_type |-> p[1].disaster_type, fips_code |-> p[1].fips_code,
      job_loss_pct |-> p[1].job_loss_pct,
      recovery_months |-> p[1].recovery_months,
      avg_next_12 |-> p[2].avg_next_12] :
        p \in {q \in c.employment_impact \X c.disaster_forecast :
                  /\ q[1].state = q[2].state
                  /\ q[1].disaster_type = q[2].disaster_type}}

\* ROUND(AVG(job_loss_pct) * avg_next_12, 1) in tenths: the mean is
\* <<sum, n>> and the frequency is in thousandths.
Score(avg, freq) == RoundDiv(avg[1] * freq, avg[2] * 100)

\* Query 2: top N (state, sector, disaster) groups by weighted risk.
TopRiskRows(c, limit) ==
    LET J == {j \in Joined(c) : j.job_loss_pct # None /\ j.avg_next_12 # None}
        Of(g) == {j \in J : <<j.state, j.sector, j.disaster_type>> = g}
        Freq(g) == (CHOOSE j \in Of(g) : TRUE).avg_next_12[1]
        Rows == {[state |-> g[1], sector |-> g[2], disaster_type |-> g[3],
                  avg_loss_pct |-> Round1(AVG(Of(g), "job_loss_pct")),
                  avg_recovery |-> Round0(AVG(Of(g), "recovery_months")),
                  freq_per_month |-> RoundDiv(Freq(g), 10),
                  risk_score |-> Score(AVG(Of(g), "job_loss_pct")[1], Freq(g))] :
                    g \in {<<j.state, j.sector, j.disaster_type>> : j \in J}}
    IN  Limit(OrderByDesc(Rows, [x \in Rows |-> <<x.risk_score, 1>>]), limit)

query_top_risk_combos(c, limit) ==
    IF ~c.initialised THEN Raise("RuntimeError")
    ELSE LET rows == TopRiskRows(c, limit)
         IN  IF rows = <<>> THEN Return(<<>>)
             ELSE Return(<<[kind |-> "title", limit |-> limit],
                           [kind |-> "legend"], [kind |-> "blank"]>>
                         \o [i \in 1..Len(rows) |->
                                [kind |-> "combo", rank |-> i, row |-> rows[i]]])

\* The portfolio aggregation with COUNT(state) in place of
\* COUNT(DISTINCT state): coverage counts rows, not states.
PortfolioRowsCountingRows(c, states, disaster_type) ==
    LET Sel == {r \in c.employment_impact :
                   /\ r.state \in Range(states)
                   /\ r.disaster_type = Lower(disaster_type)
                   /\ r.job_loss_pct # None}
        Of(s) == {r \in Sel : r.sector = s}
        Rows == {[sector |-> s,
                  avg_loss |-> Round1(AVG(Of(s), "job_loss_pct")),
                  worst_loss |-> 10 * MAX(Of(s), "job_loss_pct"),
                  avg_recovery |-> Round0(AVG(Of(s), "recovery_months")),
                  states_covered |-> Cardinality(Of(s))] :
                    s \in {r.sector : r \in Sel}}
    IN  OrderByDesc(Rows, [x \in Rows |-> <<x.avg_loss[1], 1>>])

\* Query 3: portfolio aggregation over a list of states.
PortfolioRows(c, states, disaster_type) ==
    LET Sel == {r \in c.employment_impact :
                   /\ r.state \in Range(states)
                   /\ r.disaster_type = Lower(disaster_type)
                   /\ r.job_loss_pct # None}
        Of(s) == {r \in Sel : r.sector = s}
        Rows == {[sector |-> s,
                  avg_loss |-> Round1(AVG(Of(s), "job_loss_pct")),
                  worst_loss |-> 10 * MAX(Of(s), "job_loss_pct"),
                  avg_recovery |-> Round0(AVG(Of(s), "recovery_months")),
                  states_covered |-> Cardinality({r.state : r \in Of(s)})] :
                    s \in {r.sector : r \in Sel}}
    IN  OrderByDesc(Rows, [x \in Rows |-> <<x.avg_loss[1], 1>>])

query_portfolio(c, states, disaster_type) ==
    IF ~c.initialised THEN Raise("RuntimeError")
    ELSE LET rows == PortfolioRows(c, states, disaster_type)
         IN  IF rows = <<>> THEN Return(<<>>)
             ELSE Return(<<[kind |-> "title", disaster_type |-> disaster_type,
                            states |-> states],
                           [kind |-> "blank"]>>
                         \o [i \in 1..Len(rows) |->
                                [kind |-> "sector", row |-> rows[i],
                                 covered |-> <<rows[i].states_covered, Len(states)>>]])

\* The variance query without its HAVING clause: a sector with a single
\* recovery value is listed too.
VarianceRowsWithoutHaving(c) ==
    LET Sel == {r \in c.employment_impact : r.recovery_months # None}
        Of(s) == {r \in Sel : r.sector = s}
        Rows == {[sector |-> s,
                  avg_recovery |-> Round1(AVG(Of(s), "recovery_months")),
                  range_months |-> 10 * (MAX(Of(s), "recovery_months")
                                         - MIN(Of(s), "recovery_months")),
                  avg_loss |-> Round1(AVG(Of(s), "job_loss_pct")),
                  n_data_points |-> Cardinality(Of(s))] :
                    s \in {r.sector : r \in Sel}}
    IN  OrderByDesc(Rows, [x \in Rows |-> <<x.range_months, 1>>])

\* Query 4: recovery variance per sector.
VarianceRows(c) ==
    LET Sel == {r \in c.employment_impact : r.recovery_months # None}
        Of(s) == {r \in Sel : r.sector = s}
        Rows == {[sector |-> s,
                  avg_recovery |-> Round1(AVG(Of(s), "recovery_months")),
                  range_months |-> 10 * (MAX(Of(s), "recovery_months")
                                         - MIN(Of(s), "recovery_months")),
                  avg_loss |-> Round1(AVG(Of(s), "job_loss_pct")),
                  n_data_points |-> Cardinality(Of(s))] :
                    s \in {r.sector : r \in Sel}}
        Having == {x \in Rows : x.n_data_points >= 2}
    IN  OrderByDesc(Having, [x \in Having |-> <<x.range_months, 1>>])

\* The labels with the thresholds taken inclusively: a range of exactly 9
\* months is HIGH, of exactly 4 months MEDIUM.
ReliabilityInclusive(range_months) ==
    IF range_months >= 90 THEN "HIGH variance"
    ELSE IF range_months >= 40 THEN "MEDIUM variance"
    ELSE "LOW variance"

\* range_months is in tenths: "> 9" is "> 90".
Reliability(range_months) ==
    IF range_months > 90 THEN "HIGH variance"
    ELSE IF range_months > 40 THEN "MEDIUM variance"
    ELSE "LOW variance"

query_variance(c) ==
    IF ~c.initialised THEN Raise("RuntimeError")
    ELSE LET rows == VarianceRows(c)
         IN  IF rows = <<>> THEN Return(<<>>)
             ELSE Return(<<[kind |-> "title"], [kind |-> "blank"]>>
                         \o [i \in 1..Len(rows) |->
                                [kind |-> "sector", rank |-> i, row |-> rows[i],
                                 reliability |-> Reliability(rows[i].range_months)]])

\* Query 5: sectors that gain workers.
SurgeRows(c, disaster_type) ==
    LET Sel == {r \in c.employment_impact :
                   /\ r.job_change_pct # None
                   /\ (disaster_type # "" => r.disaster_type = Lower(disaster_type))}
        Of(g) == {r \in Sel : <<r.sector, r.disaster_type>> = g}
        Rows == {[sector |-> g[1], disaster_type |-> g[2],
                  avg_surge |-> Round1(AVG(Of(g), "job_change_pct")),
                  avg_peak |-> Round0(AVG(Of(g), "peak_month")),
                  states |-> Cardinality({r.state : r \in Of(g)})] :
                    g \in {<<r.sector, r.disaster_type>> : r \in Sel}}
    IN  OrderByDesc(Rows, [x \in Rows |-> <<x.avg_surge[1], 1>>])

\* f"{r['avg_peak']:.0f}" is a TypeError when avg_peak is None, that is
\* when no row of the group has a peak_month.
query_demand_surge(c, disaster_type) ==
    IF ~c.initialised THEN Raise("RuntimeError")
    ELSE LET rows == SurgeRows(c, disaster_type)
         IN  IF rows = <<>> THEN Return(<<>>)
             ELSE IF \E i \in 1..Len(rows) : rows[i].avg_peak = None
                  THEN Raise("TypeError")
             ELSE Return(<<[kind |-> "title", disaster_type |-> disaster_type],
                           [kind |-> "blank"]>>
                         \o [i \in 1..Len(rows) |->
                                [kind |-> "sector", row |-> rows[i]]])

\* The pre-positioning query without `df.avg_next_12 > 0`: a pair whose
\* forecast frequency is 0 is listed too.
PrepositionRowsAnyFrequency(c, limit) ==
    LET J == {j \in Joined(c) : j.avg_next_12 # None /\ j.job_loss_pct # None}
        Of(g) == {j \in J : <<j.state, j.disaster_type>> = g}
        Freq(g) == (CHOOSE j \in Of(g) : TRUE).avg_next_12[1]
        Rows == {[state |-> g[1], disaster_type |-> g[2],
                  freq |-> RoundDiv(Freq(g), 10),
                  avg_loss |-> Round1(AVG(Of(g), "job_loss_pct")),
                  priority_score |-> Score(AVG(Of(g), "job_loss_pct")[1], Freq(g))] :
                    g \in {<<j.state, j.disaster_type>> : j \in J}}
    IN  Limit(OrderByDesc(Rows, [x \in Rows |-> <<x.priority_score, 1>>]), limit)

\* Query 6: pre-positioning priority per (state, disaster).
PrepositionRows(c, limit) ==
    LET J == {j \in Joined(c) : j.avg_next_12 # None /\ j.job_loss_pct # None
                                /\ j.avg_next_12[1] > 0}
        Of(g) == {j \in J : <<j.state, j.disaster_type>> = g}
        Freq(g) == (CHOOSE j \in Of(g) : TRUE).avg_next_12[1]
        Rows == {[state |-> g[1], disaster_type |-> g[2],
                  freq |-> RoundDiv(Freq(g), 10),
                  avg_loss |-> Round1(AVG(Of(g), "job_loss_pct")),
                  priority_score |-> Score(AVG(Of(g), "job_loss_pct")[1], Freq(g))] :
                    g \in {<<j.state, j.disaster_type>> : j \in J}}
    IN  Limit(OrderByDesc(Rows, [x \in Rows |-> <<x.priority_score, 1>>]), limit)

query_preposition(c, limit) ==
    IF ~c.initialised THEN Raise("RuntimeError")
    ELSE LET rows == PrepositionRows(c, limit)
         IN  IF rows = <<>> THEN Return(<<>>)
             ELSE Return(<<[kind |-> "title", limit |-> limit],
                           [kind |-> "legend"], [kind |-> "blank"]>>
                         \o [i \in 1..Len(rows) |->
                                [kind |-> "pair", rank |-> i, row |-> rows[i]]])

----------------------------------------------------------------------------
(* query_router.py.  A text is the sequence of its words (the pieces       *)
(* between spaces), in lower case: every function of the router lowers or  *)
(* uppers the text before it looks at it, so case carries nothing.  A      *)
(* keyword is the sequence of its words.  Python's `kw in t` is substring  *)
(* search on characters; a space of the keyword can only fall on a space   *)
(* of the text, so a keyword of n words occurs at n consecutive words of   *)
(* the text: its first word ends the first of them, its last word begins   *)
(* the last, the words between are equal (and a one-word keyword lies      *)
(* inside one word).  The three tables list, for the words of the model,   *)
(* the keyword words that lie properly inside, begin, or end them.         *)

Words ==
    {"rank", "overall", "top", "5", "portfolio", "southeast", "fl",
     "reliable", "hiring", "preposition", "worst", "hit", "flood", "in",
     "weighted"}

InfixPairs ==
    {<<"all", "overall">>, <<"at", "at-risk">>, <<"at", "states">>,
     <<"hurricane", "hurricanes">>, <<"insur", "insurance">>,
     <<"owner", "homeowner">>, <<"risk", "at-risk">>,
     <<"sector", "sectors">>, <<"state", "states">>, <<"to", "sectors">>,
     <<"to", "top">>, <<"we", "weighted">>}
PrefixPairs ==
    {<<"at", "at-risk">>, <<"hurricane", "hurricanes">>,
     <<"insur", "insurance">>, <<"sector", "sectors">>,
     <<"state", "states">>, <<"to", "top">>, <<"we", "weighted">>}
SuffixPairs ==
    {<<"all", "overall">>, <<"owner", "homeowner">>, <<"risk", "at-risk">>}

\* k in w, w.startswith(k), w.endswith(k); the empty string is in, and at
\* either end of, every string.
Infix(k, w) == k = "" \/ k = w \/ <<k, w>> \in InfixPairs
Prefix(k, w) == k = "" \/ k = w \/ <<k, w>> \in PrefixPairs
Suffix(k, w) == k = "" \/ k = w \/ <<k, w>> \in SuffixPairs

\* kw in t
Contains(t, kw) ==
    \E i \in 1..(Len(t) - Len(kw) + 1) :
        IF Len(kw) = 1 THEN Infix(kw[1], t[i])
        ELSE /\ Suffix(kw[1], t[i])
             /\ \A j \in 2..(Len(kw) - 1) : kw[j] = t[i + j - 1]
             /\ Prefix(kw[Len(kw)], t[i + Len(kw) - 1])

_TOP_RANK ==
    {<<"top", "10">>, <<"top", "5">>, <<"top", "ten">>, <<"top", "five">>,
     <<"top", "cities">>, <<"top", "states">>, <<"top", "sectors">>,
     <<"rank">>, <<"ranked">>, <<"ranking">>,
     <<"which", "sectors", "recover", "fastest">>,
     <<"which", "sectors", "recover", "slowest">>,
     <<"fastest", "recovery">>, <<"slowest", "recovery">>,
     <<"most", "at", "risk">>, <<"highest", "risk">>, <<"least", "risk">>,
     <<"safest", "sector">>, <<"compare", "sectors">>,
     <<"sector", "comparison">>}
_SECTOR_RANK ==
    {<<"which", "sector">>, <<"which", "industry">>, <<"recover", "fastest">>,
     <<"recover", "slowest">>, <<"recover", "quickest">>,
     <<"quickest", "recovery">>, <<"worst", "hit">>, <<"hardest", "hit">>,
     <<"most", "affected">>, <<"least", "affected">>, <<"bounce", "back">>}
_PORTFOLIO ==
    {<<"portfolio">>, <<"southeast">>, <<"gulf", "coast">>, <<"west", "coast">>,
     <<"midwest">>, <<"northeast">>, <<"across", "our">>, <<"across", "states">>,
     <<"multiple", "states">>, <<"all", "states">>,
     <<"real", "estate", "holdings">>, <<"our", "properties">>,
     <<"our", "exposure">>}
_VARIANCE ==
    {<<"variance">>, <<"reliable">>, <<"reliability">>, <<"confidence">>,
     <<"uncertain">>, <<"how", "accurate">>, <<"least", "reliable">>,
     <<"most", "reliable">>, <<"how", "sure">>, <<"how", "certain">>,
     <<"prediction", "accuracy">>, <<"model", "accuracy">>}
_DEMAND_SURGE ==
    {<<"gain", "workers">>, <<"gain", "jobs">>, <<"gaining", "jobs">>,
     <<"hiring">>, <<"increase", "jobs">>, <<"which", "sectors", "grow">>,
     <<"which", "sectors", "hire">>, <<"opportunity", "after">>,
     <<"benefit", "from", "disaster">>, <<"boom", "after">>,
     <<"construction", "boom">>, <<"who", "benefits">>,
     <<"which", "jobs", "increase">>}
_PREPOSITION ==
    {<<"pre-position">>, <<"preposition">>, <<"where", "should", "we">>,
     <<"deploy", "resources">>, <<"prioritize", "retraining">>,
     <<"where", "to", "focus">>, <<"resource", "allocation">>,
     <<"intervention", "priority">>, <<"forecast", "risk">>,
     <<"next", "18", "months">>, <<"next", "year", "risk">>,
     <<"upcoming", "risk">>, <<"prepare", "for">>}

\* The scope keywords without the numerals: the reading under which a
\* count of sectors in a question does not make it a cross-state question.
ScopeKeywordsWithoutNumerals ==
    {<<"city">>, <<"state">>, <<"combined">>, <<"overall">>, <<"weighted">>}

\* The second condition of the top-risk rule.
ScopeKeywords ==
    {<<"city">>, <<"state">>, <<"combined">>, <<"overall">>, <<"weighted">>,
     <<"10">>, <<"5">>, <<"ten">>, <<"five">>}

_match(text, keywords) == \E kw \in keywords : Contains(text, kw)

all_states ==
    {"AL", "AK", "AZ", "AR", "CA", "CO", "CT", "DE", "DC", "FL", "GA", "HI", "ID",
     "IL", "IN", "IA", "KS", "KY", "LA", "ME", "MD", "MA", "MI", "MN", "MS", "MO",
     "MT", "NE", "NV", "NH", "NJ", "NM", "NY", "NC", "ND", "OH", "OK", "OR", "PA",
     "RI", "SC", "SD", "TN", "TX", "UT", "VT", "VA", "WA", "WV", "WI", "WY"}

\* re.findall(r'\b([A-Z]{2})\b', w.upper()) on one word.
TwoLetterTokens(w) ==
    CASE w = "fl" -> <<"FL">>
      [] w = "la" -> <<"LA">>
      [] w = "in" -> <<"IN">>
      [] w = "at-risk" -> <<"AT">>
      [] OTHER -> <<>>

IsState(s) == s \in all_states

RECURSIVE _extract_states(_)
_extract_states(text) ==
    IF text = <<>> THEN <<>>
    ELSE SelectSeq(TwoLetterTokens(Head(text)), IsState)
         \o _extract_states(Tail(text))

DisasterKeywords ==
    << <<<<"hurricane">>, "hurricane">>, <<<<"flood">>, "flood">>,
       <<<<"wildfire">>, "fire">>, <<<<"fire">>, "fire">>,
       <<<<"tornado">>, "tornado">>, <<<<"earthquake">>, "earthquake">>,
       <<<<"storm">>, "severe_storm">>,
       <<<<"severe", "storm">>, "severe_storm">> >>

\* The first keyword of the list that the text holds decides; None is "".
_extract_disaster(text) ==
    IF \E i \in 1..Len(DisasterKeywords) : Contains(text, DisasterKeywords[i][1])
    THEN DisasterKeywords[CHOOSE i \in 1..Len(DisasterKeywords) :
            /\ Contains(text, DisasterKeywords[i][1])
            /\ \A j \in 1..(i - 1) : ~Contains(text, DisasterKeywords[j][1])][2]
    ELSE ""

\* REGION_GROUPS in the order of the dict, each name with its "_" as a
\* space and as written.
RegionNames ==
    << <<"southeast", <<"southeast">>, <<"southeast">>>>,
       <<"gulf_coast", <<"gulf", "coast">>, <<"gulf_coast">>>>,
       <<"midwest", <<"midwest">>, <<"midwest">>>>,
       <<"west_coast", <<"west", "coast">>, <<"west_coast">>>>,
       <<"northeast", <<"northeast">>, <<"northeast">>>>,
       <<"southwest", <<"southwest">>, <<"southwest">>>> >>

RegionIn(text, i) ==
    Contains(text, RegionNames[i][2]) \/ Contains(text, RegionNames[i][3])

_extract_region_states(text) ==
    IF \E i \in 1..Len(RegionNames) : RegionIn(text, i)
    THEN REGION_GROUPS[RegionNames[CHOOSE i \in 1..Len(RegionNames) :
            /\ RegionIn(text, i)
            /\ \A j \in 1..(i - 1) : ~RegionIn(text, j)][1]]
    ELSE <<>>

\* a or b, for strings and for lists
OrStr(a, b) == IF a # "" THEN a ELSE b
OrList(a, b) == IF a # <<>> THEN a ELSE b

\* What route_and_query does: the one engine call it makes, if any, and
\* what it returns.
NoCall == [op |-> "none", args |-> <<>>]
Ran(op, args, result) == [ran |-> [op |-> op, args |-> args], result |-> result]

\* A top-risk rule that asks for a ranking keyword only.
TopRiskRuleRankingOnly(text) == _match(text, _TOP_RANK)

\* The conditions of the six rules, in the order of the code.
TopRiskRule(text) == _match(text, _TOP_RANK) /\ _match(text, ScopeKeywords)
PrepositionRule(text) == _match(text, _PREPOSITION)
PortfolioStates(text) == OrList(_extract_region_states(text), _extract_states(text))
\* A portfolio rule that asks for a portfolio keyword only.
PortfolioRuleKeywordOnly(text) == _match(text, _PORTFOLIO)
PortfolioRule(text) == _match(text, _PORTFOLIO) /\ PortfolioStates(text) # <<>>
VarianceRule(text) == _match(text, _VARIANCE)
DemandSurgeRule(text) == _match(text, _DEMAND_SURGE)
SectorRankRule(text) == _match(text, _SECTOR_RANK) \/ _match(text, _TOP_RANK)

\* The router with the portfolio rule tried before the top-risk rule.
route_and_query_portfolio_first(c, question, state, disaster_type) ==
    LET text == question
    IN  IF PortfolioRule(text)
        THEN LET states == PortfolioStates(question)
                 dtype == OrStr(disaster_type,
                                 OrStr(_extract_disaster(question), "hurricane"))
             IN  Ran("query_portfolio", <<states, dtype>>,
                     query_portfolio(c, states, dtype))
        ELSE IF TopRiskRule(text)
        THEN Ran("query_top_risk_combos", <<10>>, query_top_risk_combos(c, 10))
        ELSE IF PrepositionRule(text)
        THEN Ran("query_preposition", <<10>>, query_preposition(c, 10))
        ELSE IF VarianceRule(text)
        THEN Ran("query_variance", <<>>, query_variance(c))
        ELSE IF DemandSurgeRule(text)
        THEN LET dtype == OrStr(disaster_type, _extract_disaster(question))
             IN  Ran("query_demand_surge", <<dtype>>, query_demand_surge(c, dtype))
        ELSE IF SectorRankRule(text)
        THEN LET q_state == OrStr(state,
                                   Head(OrList(_extract_states(question), <<"">>)))
                 q_dtype == OrStr(disaster_type, _extract_disaster(question))
             IN  Ran("query_sector_ranking", <<q_state, q_dtype>>,
                     query_sector_ranking(c, q_state, q_dtype))
        ELSE [ran |-> NoCall, result |-> Return(<<>>)]

route_and_query(c, question, state, disaster_type) ==
    LET text == question
    IN  IF TopRiskRule(text)
        THEN Ran("query_top_risk_combos", <<10>>, query_top_risk_combos(c, 10))
        ELSE IF PrepositionRule(text)
        THEN Ran("query_preposition", <<10>>, query_preposition(c, 10))
        ELSE IF PortfolioRule(text)
        THEN LET states == PortfolioStates(question)
                 dtype == OrStr(disaster_type,
                                 OrStr(_extract_disaster(question), "hurricane"))
             IN  Ran("query_portfolio", <<states, dtype>>,
                     query_portfolio(c, states, dtype))
        ELSE IF VarianceRule(text)
        THEN Ran("query_variance", <<>>, query_variance(c))
        ELSE IF DemandSurgeRule(text)
        THEN LET dtype == OrStr(disaster_type, _extract_disaster(question))
             IN  Ran("query_demand_surge", <<dtype>>, query_demand_surge(c, dtype))
        ELSE IF SectorRankRule(text)
        THEN LET q_state == OrStr(state,
                                   Head(OrList(_extract_states(question), <<"">>)))
                 q_dtype == OrStr(disaster_type, _extract_disaster(question))
             IN  Ran("query_sector_ranking", <<q_state, q_dtype>>,
                     query_sector_ranking(c, q_state, q_dtype))
        ELSE [ran |-> NoCall, result |-> Return(<<>>)]

----------------------------------------------------------------------------
(* The Knowledge Index: vectorstore.py, embeddings.py, retriever.py.       *)
(*                                                                         *)
(* A chunk of the index carries the metadata ingest gives it: a category,  *)
(* and a state and a disaster type when its file names one ("" when the    *)
(* key is absent: Chroma stores no None).  Its distance to the query at    *)
(* hand, in hundred-thousandths, stands for its embedding.                 *)

\* config.py: settings.top_k
top_k_default == 6

\* The chunks an index of the model may hold.
KBCategories ==
    {"general", "fema", "warn_act", "recovery_timelines", "transferable_skills"}
KBDistances == {25000, 25004}
KBChunks ==
    [category : KBCategories, state : {"", "FL"},
     disaster_type : {"", "hurricane"}, distance : KBDistances]

\* vectorstore._collection before init_vectorstore.
NoCollection == [initialised |-> FALSE, chunks |-> {}]

\* The collection of a persisted index.
Collection(chunks) == [initialised |-> TRUE, chunks |-> chunks]

\* The $or filter of the branch retrieve takes: the metadata equalities it
\* lists, as <<key, value>> pairs; None when no filter is applied.
where_filter(state, disaster_type) ==
    IF state # "" /\ disaster_type # ""
    THEN Some({<<"state", state>>, <<"disaster_type", disaster_type>>,
               <<"category", "model_output">>, <<"category", "forecast">>,
               <<"category", "fema">>, <<"category", "warn_act">>,
               <<"category", "cobra">>, <<"category", "retraining">>,
               <<"category", "recovery_timelines">>,
               <<"category", "transferable_skills">>})
    ELSE IF state # ""
    THEN Some({<<"state", state>>,
               <<"category", "warn_act">>, <<"category", "cobra">>,
               <<"category", "retraining">>,
               <<"category", "recovery_timelines">>,
               <<"category", "transferable_skills">>})
    ELSE IF disaster_type # ""
    THEN Some({<<"disaster_type", disaster_type>>,
               <<"category", "model_output">>, <<"category", "forecast">>,
               <<"category", "fema">>,
               <<"category", "recovery_timelines">>,
               <<"category", "transferable_skills">>})
    ELSE None

\* A filter that lets every chunk through.
MatchesAll(where, chunk) == TRUE

\* Chroma's where: a chunk passes an $or of $eq when its metadata has one of
\* the listed values under the listed key; every chunk passes no filter.
Matches(where, chunk) ==
    where = None \/ \E eq \in where[1] : chunk[eq[1]] = eq[2]

\* collection.query: the n_results nearest of the chunks that pass the
\* filter, nearest first (one order of equal distances is taken); a number
\* of results that is not positive is refused.
Query(col, n_results, where) ==
    IF n_results =< 0 THEN Raise("ValueError")
    ELSE LET pass == {c \in col.chunks : Matches(where, c)}
         IN  Return(Limit(OrderByDesc(pass, [c \in pass |-> <<0 - c.distance, 1>>]),
                          n_results))

\* similarity: round(1 - distance, 4), in ten-thousandths.
Similarity(distance) == RoundDiv(100000 - distance, 10)

\* retrieve(query, state, disaster_type, top_k); top_k None is <<>>.
retrieve(col, emb, state, disaster_type, top_k) ==
    IF ~col.initialised THEN Raise("RuntimeError")
    ELSE IF emb # "loaded" THEN Raise("RuntimeError")
    ELSE LET k == IF top_k = None \/ top_k = Some(0)
                  THEN top_k_default ELSE top_k[1]
             count == Cardinality(col.chunks)
             n_results == IF count > 0
                          THEN (IF k < count THEN k ELSE count) ELSE k
             results == Query(col, n_results, where_filter(state, disaster_type))
         IN  IF results.raised THEN results
             ELSE Return([i \in 1..Len(results.text) |->
                            [metadata |-> results.text[i],
                             similarity |-> Similarity(results.text[i].distance)]])

----------------------------------------------------------------------------
(* services/model_service.py: the predictions and forecasts held for the   *)
(* two guaranteed sections of the prompt.  _precomputed and                *)
(* _precomputed_by_state index the same entries, so the model keeps the    *)
(* entries once (flat, as the files above) and each accessor selects by    *)
(* its key.  A context string is the sequence of its lines, "" being <<>>; *)
(* a line is the tuple of what it is formatted from.  Percentages are in   *)
(* tenths here: the aggregate rounds to one decimal.                       *)

\* a / b rounded half to even, for a >= 0 and b > 0: Python's round.
RoundHalfEven(a, b) ==
    LET q == a \div b
        r == a % b
    IN  IF 2 * r < b THEN q
        ELSE IF 2 * r > b THEN q + 1
        ELSE IF q % 2 = 0 THEN q ELSE q + 1

\* s.replace("_", " ").title()
Title(s) ==
    CASE s = "hurricane" -> "Hurricane"
      [] s = "flood" -> "Flood"
      [] OTHER -> s

\* model_service before load_model.
NoModel == [precomputed |-> {}, prophet_forecasts |-> {}, model_loaded |-> FALSE]

\* The module's own FIPS_STATE_MAP, on the prefixes of the model's codes.
StateOfFips ==
    [p \in {"01", "12", "22"} |->
        CASE p = "01" -> "AL" [] p = "12" -> "FL" [] OTHER -> "LA"]

\* model_service's PROPHET_TYPE_MAP: disaster type to the suffix of the
\* forecast file's keys.
ProphetSuffix ==
    [k \in {"fire", "flood", "hurricane", "severe_storm", "tornado"} |->
        CASE k = "fire" -> "Fire" [] k = "flood" -> "Flood"
          [] k = "hurricane" -> "Hurricane"
          [] k = "severe_storm" -> "Severe_Storm" [] OTHER -> "Tornado"]

\* ml.predict.predict: the stub returns None.
ml_predict(disaster_type, fips_code, severity) == None

\* The sectors of a prediction in the order its dict holds them (the order
\* of the file; one order is taken).
SectorOrder == <<"Construction", "Healthcare">>

\* An entry of the file as the dict get_prediction returns.
EntryOf(items, disaster_type, fips_code) ==
    [disaster_type |-> disaster_type,
     fips_code |-> Some(fips_code),
     region |-> <<fips_code>>,
     predictions |->
        {[sector |-> i.sector,
          data |-> Data(IF i.data.job_loss_pct = None THEN None
                        ELSE Some(10 * i.data.job_loss_pct[1]),
                        IF i.data.job_change_pct = None THEN None
                        ELSE Some(10 * i.data.job_change_pct[1]),
                        i.data.recovery_months, i.data.peak_month)] :
            i \in items}]

get_prediction(m, disaster_type, fips_code) ==
    LET hit == {i \in m.precomputed :
                    /\ i.disaster_type = disaster_type
                    /\ i.fips_code = fips_code}
        live == ml_predict(disaster_type, fips_code, "major")
    IN  IF hit # {} THEN Some(EntryOf(hit, disaster_type, fips_code))
        ELSE IF m.model_loaded /\ live # None THEN live
        ELSE None

\* The aggregate with `if losses: ... if gains: ...` in place of the
\* if/elif: a sector with losses in some counties and gains in others
\* carries both percentages.
SectorAggregateBoth(rows) ==
    LET losses == CountField(rows, "job_loss_pct")
        gains == CountField(rows, "job_change_pct")
        lossrows == {r \in rows : r.job_loss_pct # None}
        gainrows == {r \in rows : r.job_change_pct # None}
    IN  IF losses = 0 /\ gains = 0 THEN None
        ELSE Some(Data(
            IF losses = 0 THEN None
            ELSE Some(RoundHalfEven(10 * SumField(rows, "job_loss_pct"), losses)),
            IF gains = 0 THEN None
            ELSE Some(RoundHalfEven(10 * SumField(rows, "job_change_pct"), gains)),
            IF losses = 0 THEN None
            ELSE IF CountField(lossrows, "recovery_months") = 0 THEN Some(12)
            ELSE Some(RoundHalfEven(SumField(lossrows, "recovery_months"),
                                    CountField(lossrows, "recovery_months"))),
            IF gains = 0 THEN None
            ELSE IF CountField(gainrows, "peak_month") = 0 THEN Some(3)
            ELSE Some(RoundHalfEven(SumField(gainrows, "peak_month"),
                                    CountField(gainrows, "peak_month")))))

\* The aggregate of one sector over the entries of a state.
SectorAggregate(rows) ==
    LET losses == CountField(rows, "job_loss_pct")
        gains == CountField(rows, "job_change_pct")
        lossrows == {r \in rows : r.job_loss_pct # None}
        gainrows == {r \in rows : r.job_change_pct # None}
    IN  IF losses >= gains /\ losses > 0
        THEN Some(Data(Some(RoundHalfEven(10 * SumField(rows, "job_loss_pct"), losses)),
                       None,
                       IF CountField(lossrows, "recovery_months") = 0 THEN Some(12)
                       ELSE Some(RoundHalfEven(SumField(lossrows, "recovery_months"),
                                               CountField(lossrows, "recovery_months"))),
                       None))
        ELSE IF gains > 0
        THEN Some(Data(None,
                       Some(RoundHalfEven(10 * SumField(rows, "job_change_pct"), gains)),
                       None,
                       IF CountField(gainrows, "peak_month") = 0 THEN Some(3)
                       ELSE Some(RoundHalfEven(SumField(gainrows, "peak_month"),
                                               CountField(gainrows, "peak_month")))))
        ELSE None

get_prediction_by_state(m, disaster_type, state) ==
    LET st == Upper(state)
        dt == Lower(disaster_type)
        entries == {i \in m.precomputed :
                        /\ i.disaster_type = dt
                        /\ Get(StateOfFips, Prefix2(i.fips_code), "") = st}
        counties == {i.fips_code : i \in entries}
        rowsOf(sec) == {[fips_code |-> x.fips_code,
                         job_loss_pct |-> x.data.job_loss_pct,
                         job_change_pct |-> x.data.job_change_pct,
                         recovery_months |-> x.data.recovery_months,
                         peak_month |-> x.data.peak_month] :
                            x \in {i \in entries : i.sector = sec}}
    IN  IF entries = {} THEN None
        ELSE Some([disaster_type |-> dt,
                   fips_code |-> None,
                   region |-> <<st, "Statewide", Cardinality(counties)>>,
                   predictions |->
                      {[sector |-> sec, data |-> SectorAggregate(rowsOf(sec))[1]] :
                          sec \in {x \in {i.sector : i \in entries} :
                                      SectorAggregate(rowsOf(x)) # None}}])

\* The line of one sector, if the prediction has the sector.
SectorLines(prediction, sec) ==
    LET found == {p \in prediction.predictions : p.sector = sec}
        data == (CHOOSE p \in found : TRUE).data
    IN  IF found = {} THEN <<>>
        ELSE IF data.job_loss_pct # None
        THEN << <<sec, "job displacement", data.job_loss_pct[1],
                  "recovery months", data.recovery_months>> >>
        ELSE IF data.job_change_pct # None
        THEN << <<sec, "labor demand surge", data.job_change_pct[1],
                  "peak month", data.peak_month>> >>
        ELSE <<>>

RECURSIVE SectorBlock(_, _)
SectorBlock(prediction, order) ==
    IF order = <<>> THEN <<>>
    ELSE SectorLines(prediction, Head(order)) \o SectorBlock(prediction, Tail(order))

format_prediction_context(prediction) ==
    IF prediction = None THEN <<>>
    ELSE LET p == prediction[1]
         IN  << <<"Employment Impact Model", Title(p.disaster_type), p.region>>,
                <<"Model summary", p.disaster_type, p.region>> >>
             \o (IF p.predictions = {} THEN <<>>
                 ELSE << <<"Sector-level projections">> >>
                      \o SectorBlock(p, SectorOrder))

get_forecast(m, state, disaster_type) ==
    IF m.prophet_forecasts = {} THEN None
    ELSE LET prophet_suffix == Get(ProphetSuffix, Lower(disaster_type), "")
             found == {e \in m.prophet_forecasts :
                          e.key = <<Upper(state), prophet_suffix>>}
         IN  IF prophet_suffix = "" \/ found = {} THEN None
             ELSE Some(CHOOSE e \in found : TRUE)

\* The index of the first largest element of a non-empty sequence.
IndexOfMax(s) ==
    CHOOSE i \in 1..Len(s) :
        /\ \A j \in 1..Len(s) : s[i] >= s[j]
        /\ \A j \in 1..(i - 1) : s[j] < s[i]

format_forecast_context(m, state, disaster_type) ==
    IF state = "" \/ disaster_type = "" THEN <<>>
    ELSE LET entry == get_forecast(m, state, disaster_type)
         IN  IF entry = None THEN <<>>
             ELSE LET predicted == entry[1].predicted_counts
                      \* round(sum / len, 2), in hundredths; shown as :.1f
                      avg == IF predicted = <<>> THEN 0
                             ELSE RoundHalfEven(100 * SumSeq(predicted), Len(predicted))
                  IN  << <<"Risk Forecast", Title(disaster_type), Upper(state)>>,
                         <<"Historical record", 0, Upper(state)>>,
                         <<"6-year forward forecast", RoundHalfEven(avg, 10)>> >>
                      \o (IF predicted = <<>> THEN <<>>
                          ELSE << <<"Forecast peak month", IndexOfMax(predicted),
                                    predicted[IndexOfMax(predicted)]>> >>)

----------------------------------------------------------------------------
\* What load_model finds on disk: each JSON file or None, whether the
\* model artifact is there, and where init_db fails if it does ("no": it
\* does not).
FilesOnDisk(predictions, prophet, artifact, init_db_raises) ==
    [predictions |-> predictions, prophet |-> prophet, artifact |-> artifact,
     init_db_raises |-> init_db_raises]

\* load_model: a missing file is reported and skipped; init_db runs only
\* when both files are there, and what it raises is caught and reported.
\* An init_db that fails has already set _conn: it leaves the tables as
\* far as it filled them.
load_model(files) ==
    [raised |-> FALSE,
     model |-> [precomputed |-> IF files.predictions = None THEN {}
                                ELSE files.predictions[1],
                prophet_forecasts |-> IF files.prophet = None THEN {}
                                      ELSE files.prophet[1],
                model_loaded |-> files.artifact],
     conn |->
        IF files.predictions = None \/ files.prophet = None THEN NotInitialised
        ELSE IF files.init_db_raises = "predictions" THEN init_db({}, {})
        ELSE IF files.init_db_raises = "prophet"
        THEN init_db(files.predictions[1], {})
        ELSE init_db(files.predictions[1], files.prophet[1])]

(* rag/prompts.py and steps 0 to 4 of chat_stream: the audience, the two   *)
(* guaranteed sections, the structured section, the retrieved chunks and   *)
(* the system prompt.  A job title and a question are sequences of words,  *)
(* None and "" being <<>>.                                                 *)

AUDIENCE_TYPES ==
    {"worker", "employer", "policymaker", "investor", "insurer", "unknown"}

InsurerKeywords ==
    {<<"insur">>, <<"actuar">>, <<"underwrite">>, <<"reinsur">>}
InvestorKeywords ==
    {<<"investor">>, <<"portfolio">>, <<"real", "estate", "fund">>,
     <<"analyst">>, <<"fund", "manager">>}
PolicymakerKeywords ==
    {<<"mayor">>, <<"planner">>, <<"policy">>, <<"city", "council">>,
     <<"government">>, <<"agency", "director">>, <<"official">>}
\* "hr " ends in a space: the word hr and the start of the next word.
EmployerKeywords ==
    {<<"owner">>, <<"employer">>, <<"ceo">>, <<"hr", "">>,
     <<"hiring", "manager">>, <<"workforce", "manager">>,
     <<"operations", "manager">>}

\* The words of s or '': an empty string is one empty word.
WordsOrEmpty(s) == IF s = <<>> THEN <<"">> ELSE s

\* f"{job_title or ''} {question or ''}".lower()
AudienceText(job_title, question) ==
    LET t == WordsOrEmpty(job_title) \o WordsOrEmpty(question)
    IN  [i \in DOMAIN t |-> Lower(t[i])]

\* The heuristic with the investor keywords tested first.
detect_audience_investor_first(job_title, question) ==
    LET text == AudienceText(job_title, question)
    IN  IF job_title = <<>> /\ question = <<>> THEN "unknown"
        ELSE IF _match(text, InvestorKeywords) THEN "investor"
        ELSE IF _match(text, InsurerKeywords) THEN "insurer"
        ELSE IF _match(text, PolicymakerKeywords) THEN "policymaker"
        ELSE IF _match(text, EmployerKeywords) THEN "employer"
        ELSE "worker"

detect_audience(job_title, question) ==
    LET text == AudienceText(job_title, question)
    IN  IF job_title = <<>> /\ question = <<>> THEN "unknown"
        ELSE IF _match(text, InsurerKeywords) THEN "insurer"
        ELSE IF _match(text, InvestorKeywords) THEN "investor"
        ELSE IF _match(text, PolicymakerKeywords) THEN "policymaker"
        ELSE IF _match(text, EmployerKeywords) THEN "employer"
        ELSE "worker"

\* audience_type if audience_type in AUDIENCE_TYPES else detect_audience(..)
resolved_audience(audience_type, job_title, question) ==
    IF audience_type \in AUDIENCE_TYPES THEN audience_type
    ELSE detect_audience(job_title, question)

format_retrieved_docs(docs) ==
    IF docs = <<>> THEN << <<"No relevant documents retrieved.">> >>
    ELSE [i \in DOMAIN docs |-> <<"Source", i, docs[i].metadata.category>>]

\* The prompt with its two guaranteed sections left as they are found.
build_system_prompt_as_found(forecast_context, prediction_context, retrieved_docs, state, disaster_type, job_title, question, audience_type, sql_context) ==
    [forecast_context |-> forecast_context,
     prediction_context |-> prediction_context,
     sql_context |->
        OrList(sql_context,
               << <<"No structured ranking/aggregation query was needed for this question.">> >>),
     retrieved_docs |-> format_retrieved_docs(retrieved_docs),
     state |-> OrStr(state, "Not specified"),
     disaster_type |-> OrStr(disaster_type, "Not specified"),
     job_title |-> OrList(job_title, <<"Not specified">>),
     audience_type |-> resolved_audience(audience_type, job_title, question)]

\* SYSTEM_PROMPT_TEMPLATE.format(..): the prompt as the record of what
\* fills the template's fields.
build_system_prompt(forecast_context, prediction_context, retrieved_docs, state, disaster_type, job_title, question, audience_type, sql_context) ==
    [forecast_context |->
        OrList(forecast_context,
               << <<"No frequency forecast available for this state/disaster combination.">> >>),
     prediction_context |->
        OrList(prediction_context,
               << <<"No employment impact prediction available for this scenario.">> >>),
     sql_context |->
        OrList(sql_context,
               << <<"No structured ranking/aggregation query was needed for this question.">> >>),
     retrieved_docs |-> format_retrieved_docs(retrieved_docs),
     state |-> OrStr(state, "Not specified"),
     disaster_type |-> OrStr(disaster_type, "Not specified"),
     job_title |-> OrList(job_title, <<"Not specified">>),
     audience_type |-> resolved_audience(audience_type, job_title, question)]

\* Step 1b of chat_stream: an exact lookup that the state aggregate always
\* overrides.
lookup_prediction_state_first(m, disaster_type, fips_code, state) ==
    IF disaster_type = "" THEN None
    ELSE IF state # "" /\ get_prediction_by_state(m, disaster_type, state) # None
    THEN get_prediction_by_state(m, disaster_type, state)
    ELSE IF fips_code # "" THEN get_prediction(m, disaster_type, fips_code)
    ELSE None

\* Step 1b of chat_stream.
lookup_prediction(m, disaster_type, fips_code, state) ==
    LET exact == IF disaster_type # "" /\ fips_code # ""
                 THEN get_prediction(m, disaster_type, fips_code) ELSE None
    IN  IF disaster_type # "" /\ exact = None /\ state # ""
        THEN get_prediction_by_state(m, disaster_type, state)
        ELSE exact

\* Steps 0 to 4 of chat_stream on the loaded resources: what the request
\* contributes to the prompt, and the prompt (None when retrieve raises:
\* no prompt is assembled then).
chat_context(c, col, emb, m, req) ==
    LET audience == resolved_audience(req.audience_type, req.job_title, req.message)
        forecast_context == format_forecast_context(m, req.state, req.disaster_type)
        prediction == lookup_prediction(m, req.disaster_type, req.fips_code, req.state)
        prediction_context == format_prediction_context(prediction)
        routed == route_and_query(c, req.message, req.state, req.disaster_type).result
        sql_context == IF routed.raised THEN <<>> ELSE routed.text
        chunks == retrieve(col, emb, req.state, req.disaster_type, Some(top_k_default))
    IN  [audience |-> audience,
         forecast_context |-> forecast_context,
         prediction |-> prediction,
         prediction_context |-> prediction_context,
         sql_context |-> sql_context,
         raised |-> chunks.raised,
         prompt |->
            IF chunks.raised THEN None
            ELSE Some(build_system_prompt(forecast_context, prediction_context,
                                          chunks.text, req.state, req.disaster_type,
                                          req.job_title, req.message, audience,
                                          sql_context))]

----------------------------------------------------------------------------

(* The state before any request: nothing called, no stream open.           *)

NoRequest ==
    [message |-> <<>>, state |-> "", disaster_type |-> "",
     llm_provider |-> "local", anthropic_api_key |-> FALSE, retrieve |-> "ok"]

NoStream ==
    /\ call = [op |-> "none", args |-> <<>>, ran |-> NoCall, result |-> Return(<<>>)]
    /\ request = NoRequest
    /\ pc = "idle"
    /\ cs = "idle"
    /\ events = <<>>
    /\ yielded = <<>>
    /\ backend = [generated |-> <<>>, calls |-> 0, anthropic_client |-> "none"]
    /\ client = [status |-> "none", seen |-> 0, delivered |-> 0]

\* A serving process with the given resources: nothing computed, nothing
\* streaming.
Loaded(c, col, emb, m) ==
    /\ conn = c
    /\ collection = col
    /\ embedder = emb
    /\ model = m
    /\ app = "serving"
    /\ log = <<>>
    /\ NoStream

\* The engine's store is c; the rest as a start without files leaves it.
Idle(c) == Loaded(c, NoCollection, "loaded", NoModel)

\* An engine operation called directly.  The operations read conn and
\* nothing else, so what a call returns does not depend on the calls made
\* before it: each call is taken from the state in which none was made.
Called(op, args, result) ==
    /\ call.op = "none"
    /\ call' = [op |-> op, args |-> args, ran |-> [op |-> op, args |-> args],
                result |-> result]
    /\ UNCHANGED <<resources, log, request, pc, cs, events, yielded, backend, client>>

----------------------------------------------------------------------------
(* SpecSql: the Analytics Store after init_db on any pair of files, and    *)
(* the six operations called with any arguments.                           *)

ArgStates == {"", "FL", "LA"}
ArgDisasters == {"", "hurricane", "flood"}
ArgStateLists == SeqsUpTo({"FL", "LA"}, 2)
ArgLimits == 0..MaxLimit

InitSql ==
    \E P \in PredictionFiles, F \in ProphetFiles : Idle(init_db(P, F))

QuerySectorRanking ==
    \E s \in ArgStates, d \in ArgDisasters :
        Called("query_sector_ranking", <<s, d>>, query_sector_ranking(conn, s, d))

QueryTopRiskCombos ==
    \E n \in ArgLimits :
        Called("query_top_risk_combos", <<n>>, query_top_risk_combos(conn, n))

QueryPortfolio ==
    \E l \in ArgStateLists, d \in ArgDisasters \ {""} :
        Called("query_portfolio", <<l, d>>, query_portfolio(conn, l, d))

QueryVariance ==
    Called("query_variance", <<>>, query_variance(conn))

QueryDemandSurge ==
    \E d \in ArgDisasters :
        Called("query_demand_surge", <<d>>, query_demand_surge(conn, d))

QueryPreposition ==
    \E n \in ArgLimits :
        Called("query_preposition", <<n>>, query_preposition(conn, n))

NextSql ==
    \/ QuerySectorRanking
    \/ QueryTopRiskCombos
    \/ QueryPortfolio
    \/ QueryVariance
    \/ QueryDemandSurge
    \/ QueryPreposition

SpecSql == InitSql /\ [][NextSql]_vars

----------------------------------------------------------------------------
(* SpecRouter: route_and_query called with any question of at most MaxQLen *)
(* words, with the question of the end-to-end scenario and a few other     *)
(* longer ones, any caller state and disaster type, on empty and filled    *)
(* stores.                                                                 *)

ScenarioQuestion ==
    <<"top", "5", "most", "at-risk", "sectors", "in", "florida", "for",
      "hurricanes">>

\* Longer questions that meet several rules at once.
NamedQuestions ==
    {ScenarioQuestion,
     <<"rank", "overall", "southeast">>,
     <<"top", "5", "portfolio", "fl">>,
     <<"rank", "overall", "portfolio">>,
     <<"rank", "overall", "preposition">>,
     <<"rank", "overall", "reliable">>,
     <<"rank", "overall", "hiring">>,
     <<"preposition", "portfolio", "fl">>,
     <<"portfolio", "in", "fl", "reliable">>,
     <<"worst", "hit", "in", "florida">>,
     <<"top", "sectors", "hiring", "flood">>}

Questions == SeqsUpTo(Words, MaxQLen) \cup NamedQuestions

SamplePredictions ==
    {[fips_code |-> "12001", disaster_type |-> "hurricane",
      sector |-> "Construction", data |-> Data(Some(30), None, Some(12), None)],
     [fips_code |-> "12086", disaster_type |-> "hurricane",
      sector |-> "Construction", data |-> Data(Some(10), None, Some(2), None)],
     [fips_code |-> "12001", disaster_type |-> "hurricane",
      sector |-> "Healthcare", data |-> Data(None, Some(5), None, Some(3))],
     [fips_code |-> "22071", disaster_type |-> "hurricane",
      sector |-> "Healthcare", data |-> Data(Some(30), None, Some(12), None)]}

SampleProphet ==
    {[key |-> <<"FL", "Hurricane">>, predicted_counts |-> <<1, 2>>],
     [key |-> <<"LA", "Hurricane">>, predicted_counts |-> <<4>>]}

RouterStores ==
    {init_db(P, F) : P \in {{}, SamplePredictions}, F \in {{}, SampleProphet}}

InitRouter == \E c \in RouterStores : Idle(c)

RouteAndQuery ==
    /\ call.op = "none"
    /\ \E q \in Questions, s \in ArgStates, d \in ArgDisasters :
        LET r == route_and_query(conn, q, s, d)
        IN  /\ call' = [op |-> "route_and_query", args |-> <<q, s, d>>,
                        ran |-> r.ran, result |-> r.result]
            /\ UNCHANGED <<resources, log, request, pc, cs, events, yielded, backend, client>>

NextRouter == RouteAndQuery

SpecRouter == InitRouter /\ [][NextRouter]_vars

----------------------------------------------------------------------------
(* Properties of the classifier (SpecRouter).                              *)

IsRouted == call.op = "route_and_query" /\ conn.initialised

\* The claim's order of the six rules, each with the operation it runs.
ClaimedOrder ==
    <<"query_top_risk_combos", "query_preposition", "query_portfolio",
      "query_variance", "query_demand_surge", "query_sector_ranking">>

\* Whether the rule that runs operation op holds of the text.
RuleHolds(op, text) ==
    CASE op = "query_top_risk_combos" -> TopRiskRule(text)
      [] op = "query_preposition" -> PrepositionRule(text)
      [] op = "query_portfolio" -> PortfolioRule(text)
      [] op = "query_variance" -> VarianceRule(text)
      [] op = "query_demand_surge" -> DemandSurgeRule(text)
      [] OTHER -> SectorRankRule(text)

\* C5: route_and_query evaluates its six rules in the order top-risk,
\* pre-positioning, portfolio, variance, demand-surge, sector-ranking, and
\* the first rule whose condition holds (for the portfolio rule: a
\* portfolio keyword and a state list that resolves) decides the operation
\* run; no rule holding, none is run.  In particular a question that meets
\* the top-risk rule and holds a portfolio keyword runs
\* query_top_risk_combos and not query_portfolio.
C5_FirstRuleDecides ==
    IsRouted =>
        LET text == call.args[1]
        IN  /\ \A i \in 1..Len(ClaimedOrder) :
                  (/\ RuleHolds(ClaimedOrder[i], text)
                   /\ \A j \in 1..(i - 1) : ~RuleHolds(ClaimedOrder[j], text))
                  => call.ran.op = ClaimedOrder[i]
            /\ (\A i \in 1..Len(ClaimedOrder) : ~RuleHolds(ClaimedOrder[i], text))
                  => call.ran = NoCall
            /\ (TopRiskRule(text) /\ _match(text, _PORTFOLIO))
                  => call.ran.op = "query_top_risk_combos"

\* A question that meets the top-risk rule and the portfolio rule, states
\* resolved, was routed, and the top-risk operation ran.
C5_Witness ==
    /\ IsRouted
    /\ TopRiskRule(call.args[1])
    /\ PortfolioRule(call.args[1])
    /\ call.ran.op = "query_top_risk_combos"

IsScenario ==
    IsRouted /\ call.args[1] = ScenarioQuestion /\ call.args[2] = "FL"

\* The "combo" / "loss" lines of a returned text, in order.
LinesOf(text, kind) == SelectSeq(text, LAMBDA l : l.kind = kind)

\* C6 as stated: for "top 5 most at-risk sectors in Florida for hurricanes"
\* with caller state FL the sector-ranking operation runs for FL/hurricane,
\* and the result is a non-empty list headed by the sector with the highest
\* mean job_loss_pct for FL/hurricane.
C6_ScenarioRunsSectorRanking ==
    IsScenario =>
        /\ call.ran = [op |-> "query_sector_ranking", args |-> <<"FL", "hurricane">>]
        /\ LinesOf(call.result.text, "loss") # <<>>
        /\ LET FLH == {r \in conn.employment_impact :
                          /\ r.state = "FL" /\ r.disaster_type = "hurricane"
                          /\ r.job_loss_pct # None}
               Mean(s) == AVG({r \in FLH : r.sector = s}, "job_loss_pct")[1]
           IN  \A r \in FLH :
                  FracGe(Mean(LinesOf(call.result.text, "loss")[1].sector),
                         Mean(r.sector))

\* C6 amended: for that question and caller state, route_and_query runs
\* the top-risk-combination operation with limit 10 (the text holds the
\* ranking keyword "top 5" and the scope keyword "5") and returns its
\* result: the ranking of (state, sector, disaster) groups of all states by
\* risk score, the caller's state and the hurricane of the text filtering
\* nothing.
C6_ScenarioRunsTopRisk ==
    IsScenario =>
        /\ call.ran = [op |-> "query_top_risk_combos", args |-> <<10>>]
        /\ ~call.result.raised
        /\ LinesOf(call.result.text, "loss") = <<>>
        /\ LET combos == LinesOf(call.result.text, "combo")
               groups == {<<r.state, r.sector, r.disaster_type>> :
                            r \in {x \in conn.employment_impact :
                                /\ x.job_loss_pct # None
                                /\ \E d \in conn.disaster_forecast :
                                      /\ d.state = x.state
                                      /\ d.disaster_type = x.disaster_type}}
           IN  {<<combos[i].row.state, combos[i].row.sector,
                  combos[i].row.disaster_type>> : i \in 1..Len(combos)} = groups

\* The scenario was routed on a store whose ranking is headed by a group
\* of another state than the caller's.
C6_Witness ==
    /\ IsScenario
    /\ LinesOf(call.result.text, "combo") # <<>>
    /\ LinesOf(call.result.text, "combo")[1].row.state = "LA"

----------------------------------------------------------------------------
(* Properties of the six operations (SpecSql).                             *)

IsCall(op) == call.op = op /\ conn.initialised

\* The impact rows of a (state, sector, disaster) group that carry a loss.
LossRowsOf(state, sector, disaster_type) ==
    {r \in conn.employment_impact :
        /\ r.state = state /\ r.sector = sector
        /\ r.disaster_type = disaster_type
        /\ r.job_loss_pct # None}

\* The forecast rows of a (state, disaster) pair that carry a frequency.
ForecastsOf(state, disaster_type) ==
    {d \in conn.disaster_forecast :
        /\ d.state = state /\ d.disaster_type = disaster_type
        /\ d.avg_next_12 # None}

\* The groups of the inner join that have a loss and a frequency.
RiskGroups ==
    {g \in {<<r.state, r.sector, r.disaster_type>> : r \in conn.employment_impact} :
        LossRowsOf(g[1], g[2], g[3]) # {} /\ ForecastsOf(g[1], g[3]) # {}}

\* C7: query_top_risk_combos(limit=N), N >= 0, returns at most N rows, in
\* non-increasing order of risk_score; each row is one (state, sector,
\* disaster_type) group of the inner join of prediction and forecast rows
\* on (state, disaster_type), no group twice, with risk_score =
\* mean(job_loss_pct) x avg_next_12 (rounded to a tenth); no row stands for
\* a group without a loss value, without a forecast frequency or without a
\* matching forecast row.
C7_TopRiskCombos ==
    IsCall("query_top_risk_combos") =>
        LET N == call.args[1]
            combos == LinesOf(call.result.text, "combo")
            row(i) == combos[i].row
            key(i) == <<row(i).state, row(i).sector, row(i).disaster_type>>
        IN  /\ ~call.result.raised
            /\ Len(combos) =< N
            /\ \A i, j \in 1..Len(combos) :
                  i < j => row(i).risk_score >= row(j).risk_score
            /\ \A i, j \in 1..Len(combos) : key(i) = key(j) => i = j
            /\ \A i \in 1..Len(combos) :
                  /\ key(i) \in RiskGroups
                  /\ \E d \in ForecastsOf(row(i).state, row(i).disaster_type) :
                        LET L == LossRowsOf(row(i).state, row(i).sector,
                                            row(i).disaster_type)
                        IN  row(i).risk_score =
                                RoundDiv(SumField(L, "job_loss_pct") * d.avg_next_12[1],
                                         Cardinality(L) * 100)

\* Two groups of different risk qualify, the limit is 1, and the one row
\* returned is the group of the higher risk.
C7_Witness ==
    /\ IsCall("query_top_risk_combos")
    /\ call.args[1] = 1
    /\ Cardinality(RiskGroups) = 2
    /\ Len(LinesOf(call.result.text, "combo")) = 1
    /\ \E g \in RiskGroups : \E d \in ForecastsOf(g[1], g[3]) :
          RoundDiv(SumField(LossRowsOf(g[1], g[2], g[3]), "job_loss_pct")
                        * d.avg_next_12[1],
                   Cardinality(LossRowsOf(g[1], g[2], g[3])) * 100)
            < LinesOf(call.result.text, "combo")[1].row.risk_score

\* The rows of a sector, in the requested states and for the disaster,
\* that carry a loss.
PortfolioRowsOf(states, disaster_type, sector) ==
    {r \in conn.employment_impact :
        /\ \E i \in 1..Len(states) : states[i] = r.state
        /\ r.disaster_type = disaster_type
        /\ r.sector = sector
        /\ r.job_loss_pct # None}

\* C8: query_portfolio(states, disaster_type) returns one row per sector
\* that has at least one non-null-loss row in the requested states for
\* that disaster type, and each row reports coverage as (number of
\* distinct requested states that have such a row for the sector) / (length
\* of the requested list); with states that have no rows (["FL", "LA"]
\* and no LA rows) the sectors of the others are returned with 1/2.
C8_Portfolio ==
    IsCall("query_portfolio") =>
        LET states == call.args[1]
            dtype == call.args[2]
            lines == LinesOf(call.result.text, "sector")
            Sectors == {r.sector : r \in conn.employment_impact}
        IN  /\ ~call.result.raised
            /\ {lines[i].row.sector : i \in 1..Len(lines)}
                  = {s \in Sectors : PortfolioRowsOf(states, dtype, s) # {}}
            /\ \A i, j \in 1..Len(lines) :
                  lines[i].row.sector = lines[j].row.sector => i = j
            /\ \A i \in 1..Len(lines) :
                  lines[i].covered =
                    <<Cardinality({st \in Range(states) :
                        \E r \in PortfolioRowsOf(states, dtype, lines[i].row.sector) :
                            r.state = st}),
                      Len(states)>>

\* ["FL", "LA"] was asked for, the store holds no LA row, and a sector of
\* FL is returned with coverage 1/2.
C8_Witness ==
    /\ IsCall("query_portfolio")
    /\ call.args[1] = <<"FL", "LA">>
    /\ \A r \in conn.employment_impact : r.state # "LA"
    /\ \E i \in 1..Len(call.result.text) :
          /\ call.result.text[i].kind = "sector"
          /\ call.result.text[i].covered = <<1, 2>>

\* The rows of a sector that carry a recovery_months value.
RecoveryRowsOf(sector) ==
    {r \in conn.employment_impact :
        r.sector = sector /\ r.recovery_months # None}

\* C9: the output of query_variance() contains no sector that has fewer
\* than 2 rows with a non-null recovery_months, and contains every sector
\* that has at least 2 such rows.
C9_Variance ==
    IsCall("query_variance") =>
        LET lines == LinesOf(call.result.text, "sector")
        IN  /\ ~call.result.raised
            /\ {lines[i].row.sector : i \in 1..Len(lines)}
                  = {s \in {r.sector : r \in conn.employment_impact} :
                        Cardinality(RecoveryRowsOf(s)) >= 2}

\* A sector with exactly two recovery values is listed.
C9_Witness ==
    /\ IsCall("query_variance")
    /\ LinesOf(call.result.text, "sector") # <<>>
    /\ \E s \in {r.sector : r \in conn.employment_impact} :
          Cardinality(RecoveryRowsOf(s)) = 2

\* The six operations.
EngineOps ==
    {"query_sector_ranking", "query_top_risk_combos", "query_portfolio",
     "query_variance", "query_demand_surge", "query_preposition"}

\* C10: on an initialised store each of the six operations returns a
\* string for every argument combination it accepts, the empty string when
\* no rows qualify, and none of them raises, query_sector_ranking called
\* with neither a state nor a disaster type included: it ranks over all
\* rows.
C10_NoOperationRaises ==
    (call.op \in EngineOps /\ conn.initialised) =>
        /\ ~call.result.raised
        /\ conn.employment_impact = {} => call.result.text = <<>>
        /\ (/\ call.op = "query_sector_ranking"
            /\ call.args = <<"", "">>
            /\ conn.employment_impact # {}) => call.result.text # <<>>

----------------------------------------------------------------------------
(* The chat endpoint: chat.py's event_generator driving chat_stream.       *)
(*                                                                         *)
(* Both are generators.  A step of the model is one resumption of          *)
(* event_generator by its consumer (the StreamingResponse): it resumes     *)
(* chat_stream, which runs to its next yield, returns or raises, and       *)
(* event_generator runs to its own next yield.  pc and cs name the yield   *)
(* each is suspended at.                                                   *)

\* The chunks a generation backend may produce: text, a line break, and
\* the empty content Ollama sends in its opening and closing chunks.
Chunks == {"", "a", "\n"}

\* The status tokens of chat_stream, by the yield that produces them.
StatusMode == "__status__Mode"
StatusFetching == "__status__Fetching disaster frequency forecast"
StatusAnalyzing == "__status__Analyzing sector-level employment impact..."
StatusStructured == "__status__Running structured data analysis..."
StatusSearching == "__status__Searching knowledge base for programs and resources..."
StatusGenerating == "__status__Generating response..."

StatusTokens ==
    {StatusMode, StatusFetching, StatusAnalyzing, StatusStructured,
     StatusSearching, StatusGenerating}

\* token.startswith("__status__")
IsStatus(token) == token \in StatusTokens

\* token.replace("\n", "\\n") on the tokens of the model.
EscapeNewlines(token) == IF token = "\n" THEN "\\n" ELSE token

\* The three yields of event_generator.
TokenEvent(token) == [kind |-> "token", data |-> EscapeNewlines(token)]
ErrorEvent(e) == [kind |-> "error", data |-> e]
DoneEvent == [kind |-> "done", data |-> "[DONE]"]

\* An except branch that yields nothing.
ExceptSilently(evs, e) == evs

\* except Exception as e: yield "data: [ERROR] ..."
Except(evs, e) == Append(evs, ErrorEvent(e))

\* finally: yield "data: [DONE]"
Finally(evs) == Append(evs, DoneEvent)

\* A provider that passes every chunk on.
Unfiltered(chunks) == chunks

\* _stream_ollama: the chunks with content, in order.
_stream_ollama(chunks) == SelectSeq(chunks, LAMBDA t : t # "")

\* _stream_claude: every text of the stream, in order.
_stream_claude(chunks) == chunks

\* The tokens the configured provider yields for the chunks it receives.
Provider(p, chunks) ==
    IF p = "local" THEN _stream_ollama(chunks) ELSE _stream_claude(chunks)

\* event_generator can be resumed: it exists, has not finished, and its
\* consumer is still there.
Resumable ==
    /\ client.status = "connected"
    /\ pc \in {"created", "token"}

\* chat_stream yields a token: event_generator passes it on (line 38).
Yields(token, at) ==
    /\ yielded' = Append(yielded, token)
    /\ events' = Append(events, TokenEvent(token))
    /\ pc' = "token"
    /\ cs' = at

\* chat_stream raises: event_generator yields the error event (line 40).
Raises(e) ==
    /\ events' = Except(events, e)
    /\ pc' = "error"
    /\ cs' = "raised"
    /\ UNCHANGED yielded

\* chat_stream returns: event_generator falls into finally (line 42).
Returns ==
    /\ events' = Finally(events)
    /\ pc' = "done"
    /\ cs' = "returned"
    /\ UNCHANGED yielded

\* The requests of the model: a question the classifier sends to the
\* top-risk query, one it sends to the sector ranking, one it sends nowhere;
\* with and without a state and a disaster type; the provider setting and
\* whether an API key is configured; whether the knowledge-base lookup
\* works.
ChatQuestions == {<<"rank", "overall">>, <<"worst", "hit">>, <<"in">>}

ChatRequests ==
    [message : ChatQuestions, state : {"", "FL", "Florida"},
     disaster_type : {"", "hurricane"},
     llm_provider : {"local", "claude", "other"},
     anthropic_api_key : BOOLEAN, retrieve : {"ok", "raises"}]

ChatStores ==
    {NotInitialised, init_db({}, {}), init_db(SamplePredictions, SampleProphet)}

Init == \E c \in ChatStores : Idle(c)

\* POST /chat: the response starts to iterate event_generator().
Chat ==
    /\ pc = "idle"
    /\ \E req \in ChatRequests : request' = req
    /\ pc' = "created"
    /\ cs' = "created"
    /\ client' = [status |-> "connected", seen |-> 0, delivered |-> 0]
    /\ UNCHANGED <<resources, log, call, events, yielded, backend>>

\* Step 0: the audience is detected and announced.
Mode ==
    /\ Resumable /\ cs = "created"
    /\ Yields(StatusMode, "mode")
    /\ UNCHANGED <<resources, log, call, request, backend, client>>

\* Step 1a: the forecast lookup is announced.
Fetching ==
    /\ Resumable /\ cs = "mode"
    /\ Yields(StatusFetching, "fetching")
    /\ UNCHANGED <<resources, log, call, request, backend, client>>

\* Step 1b: the forecast is read and the prediction lookup announced.
Analyzing ==
    /\ Resumable /\ cs = "fetching"
    /\ Yields(StatusAnalyzing, "analyzing")
    /\ UNCHANGED <<resources, log, call, request, backend, client>>

\* Step 2 without its try block: what the router or the engine raises
\* leaves chat_stream and reaches event_generator's except branch.
StructuredRaising ==
    /\ Resumable /\ cs = "analyzing"
    /\ LET r == route_and_query(conn, request.message, request.state,
                                request.disaster_type)
       IN  /\ call' = [op |-> "route_and_query",
                       args |-> <<request.message, request.state,
                                  request.disaster_type>>,
                       ran |-> r.ran, result |-> r.result]
           /\ IF r.result.raised THEN Raises("route_and_query")
              ELSE IF r.result.text # <<>>
              THEN Yields(StatusStructured, "structured")
              ELSE Yields(StatusSearching, "searching")
    /\ UNCHANGED <<resources, log, request, backend, client>>

\* Step 2: the prediction is read and the question routed; an exception of
\* the router or the engine is swallowed.  With a result the analysis is
\* announced, without one the generator runs on to step 3's yield.
Structured ==
    /\ Resumable /\ cs = "analyzing"
    /\ LET r == route_and_query(conn, request.message, request.state,
                                request.disaster_type)
       IN  /\ call' = [op |-> "route_and_query",
                       args |-> <<request.message, request.state,
                                  request.disaster_type>>,
                       ran |-> r.ran, result |-> r.result]
           /\ IF ~r.result.raised /\ r.result.text # <<>>
              THEN Yields(StatusStructured, "structured")
              ELSE Yields(StatusSearching, "searching")
    /\ UNCHANGED <<resources, log, request, backend, client>>

\* The announcement of step 3 made from inside the provider's loop.
SearchingInsideLoop ==
    /\ Resumable /\ cs = "streaming"
    /\ Yields(StatusSearching, "streaming")
    /\ UNCHANGED <<resources, log, call, request, backend, client>>

\* Step 3, after a structured result: the knowledge-base search is
\* announced.
Searching ==
    /\ Resumable /\ cs = "structured"
    /\ Yields(StatusSearching, "searching")
    /\ UNCHANGED <<resources, log, call, request, backend, client>>

\* Steps 3 and 4: retrieve (which may raise), build the prompt, announce
\* the generation.
Generating ==
    /\ Resumable /\ cs = "searching"
    /\ IF request.retrieve = "raises"
       THEN Raises("retrieve")
       ELSE Yields(StatusGenerating, "generating")
    /\ UNCHANGED <<resources, log, call, request, backend, client>>

\* _get_anthropic_client with an API key configured: the module's client
\* handle, "none" until the first call makes the client, which later calls
\* return as it is.  Without a key the call raises and the handle stays.
_get_anthropic_client(handle) ==
    IF handle = "none" THEN "Anthropic" ELSE handle

\* One resumption of the provider's generator: the backend produces the
\* chunks ext; the provider yields its first token, or the backend ends or
\* fails before there is one.  calls is the number of backend calls made.
Stream(calls) ==
    \E ext \in SeqsUpTo(Chunks, MaxTokens - Len(backend.generated)) :
        LET p == request.llm_provider
        IN  /\ backend' = [generated |-> backend.generated \o ext,
                           calls |-> calls,
                           anthropic_client |->
                              IF p = "claude"
                              THEN _get_anthropic_client(backend.anthropic_client)
                              ELSE backend.anthropic_client]
            /\ \/ /\ ext # <<>>
                  /\ Provider(p, SubSeq(ext, 1, Len(ext) - 1)) = <<>>
                  /\ Len(Provider(p, ext)) = 1
                  /\ Yields(Provider(p, ext)[1], "streaming")
               \/ /\ Provider(p, ext) = <<>>
                  /\ Returns
               \/ /\ Provider(p, ext) = <<>>
                  /\ Raises("backend")

\* Step 5: the provider is chosen and its backend called.
StartProvider ==
    /\ Resumable /\ cs = "generating"
    /\ IF request.llm_provider \notin {"local", "claude"}
       THEN Raises("ValueError") /\ UNCHANGED backend
       ELSE IF request.llm_provider = "claude" /\ ~request.anthropic_api_key
       THEN Raises("ValueError") /\ UNCHANGED backend
       ELSE Stream(backend.calls + 1)
    /\ UNCHANGED <<resources, log, call, request, client>>

\* The provider's loop goes round.
NextToken ==
    /\ Resumable /\ cs = "streaming"
    /\ Stream(backend.calls)
    /\ UNCHANGED <<resources, log, call, request, client>>

\* After the error event: finally.
Done ==
    /\ client.status = "connected" /\ pc = "error"
    /\ events' = Finally(events)
    /\ pc' = "done"
    /\ UNCHANGED <<resources, log, call, request, cs, yielded, backend, client>>

\* After the [DONE] event the generator ends.
Finish ==
    /\ client.status = "connected" /\ pc = "done"
    /\ pc' = "finished"
    /\ UNCHANGED <<resources, log, call, request, cs, events, yielded, backend, client>>

\* The caller goes away while event_generator is suspended at a yield.
Disconnect ==
    /\ client.status = "connected"
    /\ pc \in {"token", "error", "done"}
    /\ client' = [status |-> "disconnected",
                  seen |-> Len(backend.generated),
                  delivered |-> Len(events)]
    /\ UNCHANGED <<resources, log, call, request, pc, cs, events, yielded, backend>>

\* The abandoned generator is closed: GeneratorExit is raised at the yield
\* it is suspended at.  GeneratorExit is not an Exception, so from the yield
\* in the try block and from the one in the except branch control goes to
\* finally, whose yield makes the close fail ("async generator ignored
\* GeneratorExit"); from the yield in finally the generator ends.
Close ==
    /\ client.status = "disconnected"
    /\ client' = [client EXCEPT !.status = "closed"]
    /\ pc' = IF pc \in {"token", "error"} THEN "yield_after_close" ELSE "finished"
    /\ cs' = IF cs \in {"returned", "raised"} THEN cs ELSE "closed"
    /\ UNCHANGED <<resources, log, call, request, events, yielded, backend>>

Next ==
    \/ Chat
    \/ Mode
    \/ Fetching
    \/ Analyzing
    \/ Structured
    \/ Searching
    \/ Generating
    \/ StartProvider
    \/ NextToken
    \/ Done
    \/ Finish
    \/ Disconnect
    \/ Close

Spec == Init /\ [][Next]_vars

----------------------------------------------------------------------------
(* Properties of the stream (Spec).                                        *)

\* The positions of the events of a kind.
EventsOf(kind) == {i \in 1..Len(events) : events[i].kind = kind}

\* The content tokens among the tokens of a sequence, in order.
ContentOf(tokens) == SelectSeq(tokens, LAMBDA t : ~IsStatus(t))

\* The events that carry a content token.
ContentEvents ==
    {i \in EventsOf("token") : ~IsStatus(events[i].data)}

IsPrefix(s, t) == Len(s) =< Len(t) /\ SubSeq(t, 1, Len(s)) = s

\* The stream ran to its end with the caller connected.
Completed == pc = "finished" /\ client.status = "connected"

\* C1: on every completion path (generation ends, an exception before
\* generation, a backend exception mid-stream) the events of
\* event_generator end with exactly one [DONE], the last event; when
\* chat_stream raised there is exactly one [ERROR] event, immediately
\* before [DONE], with no content event after it; and at no point of a
\* stream does an event follow [DONE] or a token event follow [ERROR].
C1_EndsWithOneDone ==
    /\ \A i \in EventsOf("done") : i = Len(events)
    /\ \A i \in EventsOf("error") : \A j \in EventsOf("token") : j < i
    /\ Cardinality(EventsOf("error")) =< 1
    /\ Completed =>
          /\ EventsOf("done") = {Len(events)}
          /\ events # <<>>
          /\ cs = "raised" => EventsOf("error") = {Len(events) - 1}
          /\ cs = "returned" => EventsOf("error") = {}
          /\ cs \in {"raised", "returned"}

\* The backend failed mid-stream, after a content token was delivered, and
\* the stream completed.
C1_Witness ==
    /\ Completed
    /\ cs = "raised"
    /\ ContentEvents # {}
    /\ backend.calls = 1
    /\ events[Len(events) - 1] = ErrorEvent("backend")

\* C2: once the caller has disconnected while the answer was streaming,
\* the backend produces no further chunk, no further event is emitted, and
\* closing event_generator does not make its finally branch yield.
C2_DisconnectStopsTheStream ==
    (client.status \in {"disconnected", "closed"} /\ ContentOf(yielded) # <<>>) =>
        /\ Len(backend.generated) = client.seen
        /\ Len(events) = client.delivered
        /\ pc # "yield_after_close"

\* C3: all status tokens come before the first content token, in what
\* chat_stream yields and in the events delivered: no status token follows
\* a content token, so a stream that has started to deliver content never
\* goes back to announcing steps; error and done events come after both.
C3_StatusBeforeContent ==
    /\ \A i, j \in 1..Len(yielded) :
          (i < j /\ IsStatus(yielded[j])) => IsStatus(yielded[i])
    /\ \A i, j \in EventsOf("token") :
          (i < j /\ IsStatus(events[j].data)) => IsStatus(events[i].data)
    /\ \A i \in EventsOf("token") : \A j \in EventsOf("error") \cup EventsOf("done") :
          i < j

\* A completed stream that announced the structured analysis and delivered
\* two content tokens.
C3_Witness ==
    /\ Completed
    /\ \E i \in 1..Len(yielded) : yielded[i] = StatusStructured
    /\ Cardinality(ContentEvents) >= 2

\* C4 as stated: the content tokens chat_stream has delivered are a prefix
\* of the chunks the backend generated, and the backend was called at most
\* once.
C4_DeliveredIsPrefixOfGenerated ==
    /\ IsPrefix(ContentOf(yielded), backend.generated)
    /\ backend.calls =< 1

\* C4, amended: the content tokens chat_stream has delivered are a prefix
\* of the chunks the backend generated less, with the local provider, the
\* chunks of empty content, in generation order and none twice; the content
\* events carry those tokens with each line break escaped; the backend is
\* called at most once per request, and not at all after a failure.
C4_DeliveredIsPrefixOfNonEmpty ==
    /\ IsPrefix(ContentOf(yielded),
                Provider(request.llm_provider, backend.generated))
    /\ request.llm_provider = "local" =>
          IsPrefix(ContentOf(yielded),
                   SelectSeq(backend.generated, LAMBDA t : t # ""))
    /\ request.llm_provider = "claude" =>
          IsPrefix(ContentOf(yielded), backend.generated)
    /\ Cardinality(ContentEvents) = Len(ContentOf(yielded))
    /\ \A i \in 1..Len(yielded) :
          events[i] = TokenEvent(yielded[i])
    /\ backend.calls =< 1
    /\ backend.calls = 1 => request.llm_provider \in {"local", "claude"}

\* The local backend produced an empty chunk and then text; the text was
\* delivered, the empty chunk was not.
C4_Witness ==
    /\ request.llm_provider = "local"
    /\ Len(backend.generated) >= 2
    /\ backend.generated[1] = ""
    /\ ContentOf(yielded) # <<>>
    /\ ContentOf(yielded)[1] = backend.generated[2]
    /\ ~IsPrefix(ContentOf(yielded), backend.generated)

----------------------------------------------------------------------------
(* SpecRetrieve: retrieve called with any state, disaster type and top_k   *)
(* on any index of at most MaxChunks chunks.                               *)

Collections ==
    {NoCollection} \cup {Collection(S) : S \in SubsetsUpTo(KBChunks, MaxChunks)}

ArgTopK == {None} \cup {Some(k) : k \in 0..MaxChunks}

InitRetrieve ==
    \E col \in Collections, emb \in {"loaded", "none"} :
        /\ emb = "none" => Cardinality(col.chunks) =< 1
        /\ Loaded(NotInitialised, col, emb, NoModel)

Retrieve ==
    /\ call.op = "none"
    /\ \E s \in {"", "FL", "TX"}, d \in {"", "hurricane", "flood"}, k \in ArgTopK :
          call' = [op |-> "retrieve", args |-> <<s, d, k>>, ran |-> NoCall,
                   result |-> retrieve(collection, embedder, s, d, k)]
    /\ UNCHANGED <<resources, log, request, pc, cs, events, yielded, backend, client>>

NextRetrieve == Retrieve

SpecRetrieve == InitRetrieve /\ [][NextRetrieve]_vars

----------------------------------------------------------------------------
(* Properties of retrieve (SpecRetrieve).                                  *)

IsRetrieved == call.op = "retrieve" /\ ~call.result.raised

\* The category whitelists as the claim gives them.
CrossCuttingCategories ==
    {"model_output", "forecast", "fema", "warn_act", "cobra", "retraining",
     "recovery_timelines", "transferable_skills"}
NationalCategories ==
    {"warn_act", "cobra", "retraining", "recovery_timelines",
     "transferable_skills"}
DisasterCategories == {"model_output", "forecast", "fema", "recovery_timelines"}

\* A chunk satisfies the filter of the branch taken for (state,
\* disaster_type), the disaster-only branch admitting the categories D.
SatisfiesBranch(chunk, state, disaster_type, D) ==
    IF state # "" /\ disaster_type # ""
    THEN \/ chunk.state = state
         \/ chunk.disaster_type = disaster_type
         \/ chunk.category \in CrossCuttingCategories
    ELSE IF state # ""
    THEN chunk.state = state \/ chunk.category \in NationalCategories
    ELSE IF disaster_type # ""
    THEN chunk.disaster_type = disaster_type \/ chunk.category \in D
    ELSE TRUE

\* What retrieve returned, as the set of its chunks.
Retrieved == {call.result.text[i].metadata : i \in 1..Len(call.result.text)}

C12_AtMostKBySimilarity ==
    (call.op = "retrieve" /\ collection.initialised /\ embedder = "loaded") =>
        LET k == IF call.args[3] = None THEN top_k_default ELSE call.args[3][1]
            chunks == call.result.text
        IN  /\ ~call.result.raised
            /\ Len(chunks) =< k
            /\ Len(chunks) =< Cardinality(collection.chunks)
            /\ \A i, j \in 1..Len(chunks) :
                  i < j => chunks[i].similarity >= chunks[j].similarity


----------------------------------------------------------------------------
(* SpecContext: chat requests served one after another by a process that  *)
(* has loaded its files; the log keeps what each request contributed to    *)
(* its prompt.                                                             *)

MaxRequests == 3      \* chat requests served one after another

\* A county file without the county the requests name.
OtherCounties ==
    {i \in SamplePredictions : i.fips_code # "12001"}

ContextFiles ==
    {FilesOnDisk(Some(P), Some(SampleProphet), FALSE, "no") :
        P \in {{}, SamplePredictions, OtherCounties}}
    \cup {FilesOnDisk(Some(SamplePredictions), None, TRUE, "no")}

SampleCollection ==
    Collection({[category |-> "fema", state |-> "", disaster_type |-> "hurricane",
                 distance |-> 25000],
                [category |-> "general", state |-> "FL", disaster_type |-> "",
                 distance |-> 25004]})

ContextRequests ==
    [message : {<<"worst", "hit">>},
     state : {"", "fl"},
     disaster_type : {"", "hurricane", "Hurricane"},
     fips_code : {"", "12001"},
     job_title : {<<>>},
     audience_type : {""}]

InitContext ==
    \E files \in ContextFiles :
        Loaded(load_model(files).conn, SampleCollection, "loaded",
               load_model(files).model)

\* A chat request whose lookups use up what they read: the forecasts and
\* predictions are gone for the requests after it.
ChatContextConsuming ==
    /\ Len(log) < MaxRequests
    /\ \E req \in ContextRequests :
          log' = Append(log, [args |-> req,
                              result |-> chat_context(conn, collection, embedder,
                                                      model, req)])
    /\ model' = NoModel
    /\ UNCHANGED <<conn, collection, embedder, app, call, request, pc, cs,
                   events, yielded, backend, client>>

\* One chat request up to the assembled prompt.
ChatContext ==
    /\ Len(log) < MaxRequests
    /\ \E req \in ContextRequests :
          log' = Append(log, [args |-> req,
                              result |-> chat_context(conn, collection, embedder,
                                                      model, req)])
    /\ UNCHANGED <<resources, call, request, pc, cs, events, yielded, backend,
                   client>>

NextContext == ChatContext

SpecContext == InitContext /\ [][NextContext]_vars

\* The placeholders of the two guaranteed sections.
NoForecast ==
    << <<"No frequency forecast available for this state/disaster combination.">> >>
NoPrediction ==
    << <<"No employment impact prediction available for this scenario.">> >>

\* C13: in every assembled system prompt the forecast section and the
\* prediction section are non-empty: each is the context that the lookup
\* found, or, when the lookup found nothing, its "not available"
\* placeholder.
C13_SectionsNeverEmpty ==
    \A i \in DOMAIN log :
        log[i].result.prompt # None =>
            LET r == log[i].result
                p == r.prompt[1]
            IN  /\ p.forecast_context # <<>>
                /\ p.prediction_context # <<>>
                /\ p.forecast_context =
                      (IF r.forecast_context # <<>> THEN r.forecast_context
                       ELSE NoForecast)
                /\ p.prediction_context =
                      (IF r.prediction_context # <<>> THEN r.prediction_context
                       ELSE NoPrediction)
                /\ (log[i].args.state = "" \/ log[i].args.disaster_type = ""
                        => p.forecast_context = NoForecast)
                /\ (log[i].args.disaster_type = ""
                        => p.prediction_context = NoPrediction)

\* One request without state and disaster type got both placeholders, and
\* one with a record of each kind got both contexts.
C13_Witness ==
    /\ \E i \in DOMAIN log :
          /\ log[i].args.state = "" /\ log[i].args.disaster_type = ""
          /\ log[i].result.prompt # None
          /\ log[i].result.prompt[1].forecast_context = NoForecast
          /\ log[i].result.prompt[1].prediction_context = NoPrediction
    /\ \E i \in DOMAIN log :
          /\ log[i].result.prompt # None
          /\ log[i].result.forecast_context # <<>>
          /\ log[i].result.prediction_context # <<>>
          /\ log[i].result.prompt[1].forecast_context = log[i].result.forecast_context
          /\ log[i].result.prompt[1].prediction_context = log[i].result.prediction_context


\* The records of the loaded file under the exact key of a request, and
\* under its state key.
ExactRecords(req) ==
    {i \in model.precomputed :
        /\ req.disaster_type # "" /\ req.fips_code # ""
        /\ i.disaster_type = req.disaster_type
        /\ i.fips_code = req.fips_code}

StateRecords(req) ==
    {i \in model.precomputed :
        /\ req.disaster_type # "" /\ req.state # ""
        /\ i.disaster_type = Lower(req.disaster_type)
        /\ Get(StateOfFips, Prefix2(i.fips_code), "") = Upper(req.state)}

IsExact(prediction, req) ==
    /\ prediction # None
    /\ prediction[1].fips_code = Some(req.fips_code)
    /\ {p.sector : p \in prediction[1].predictions}
          = {i.sector : i \in ExactRecords(req)}

IsAggregate(prediction, req) ==
    /\ prediction # None
    /\ prediction[1].fips_code = None
    /\ prediction[1].region =
          <<Upper(req.state), "Statewide",
            Cardinality({i.fips_code : i \in StateRecords(req)})>>

----------------------------------------------------------------------------
(* SpecAudience: step 0 of chat_stream, the audience of a request, for any *)
(* job title, question and explicit audience of the sets below.            *)

JobTitles ==
    {<<>>, <<"nurse">>, <<"Insurance", "analyst">>, <<"planner">>,
     <<"owner">>, <<"HR">>, <<"homeowner">>}

AudienceQuestions ==
    {<<>>, <<"worst", "hit">>, <<"portfolio", "fl">>, <<"hiring">>,
     <<"rank", "overall">>}

\* audience_type: None, two recognised values and an unrecognised one.
ArgAudiences == {"", "investor", "unknown", "advisor"}

InitAudience == Idle(NotInitialised)

ResolveAudience ==
    /\ call.op = "none"
    /\ \E a \in ArgAudiences, j \in JobTitles, q \in AudienceQuestions :
          call' = [op |-> "resolved_audience", args |-> <<a, j, q>>,
                   ran |-> NoCall,
                   result |-> Return(<<resolved_audience(a, j, q)>>)]
    /\ UNCHANGED <<resources, log, request, pc, cs, events, yielded, backend,
                   client>>

NextAudience == ResolveAudience

SpecAudience == InitAudience /\ [][NextAudience]_vars

\* The classes in the order the heuristic is said to test them.
AudienceClasses ==
    << <<"insurer", InsurerKeywords>>, <<"investor", InvestorKeywords>>,
       <<"policymaker", PolicymakerKeywords>>, <<"employer", EmployerKeywords>> >>

ClassMatches(n, job_title, question) ==
    \E kw \in AudienceClasses[n][2] :
        Contains(AudienceText(job_title, question), kw)

\* The first class with a keyword in the text, worker when there is none.
FirstClass(job_title, question) ==
    IF \E n \in 1..4 : ClassMatches(n, job_title, question)
    THEN AudienceClasses[CHOOSE n \in 1..4 :
            /\ ClassMatches(n, job_title, question)
            /\ \A k \in 1..(n - 1) : ~ClassMatches(k, job_title, question)][1]
    ELSE "worker"

IsResolved == call.op = "resolved_audience"

----------------------------------------------------------------------------
(* SpecStartup: main.lifespan.  The three loaders run in order; an         *)
(* exception of a loader ends the startup, and the application serves      *)
(* requests once lifespan has reached its yield.                           *)

StartupFiles ==
    {FilesOnDisk(P, F, a, r) :
        P \in {None, Some({}), Some(SamplePredictions)},
        F \in {None, Some(SampleProphet)},
        a \in BOOLEAN,
        r \in {"no", "predictions", "prophet"}}

StartupCollections == {Collection({}), SampleCollection}

InitStartup ==
    /\ conn = NotInitialised
    /\ collection = NoCollection
    /\ embedder = "none"
    /\ model = NoModel
    /\ app = "starting"
    /\ log = <<>>
    /\ NoStream

\* load_embedding_model(): SentenceTransformer(..) returns or raises.
LoadEmbeddingModel ==
    /\ app = "starting"
    /\ \E ok \in BOOLEAN :
          IF ok THEN embedder' = "loaded" /\ app' = "embedding_ready"
          ELSE embedder' = embedder /\ app' = "failed"
    /\ UNCHANGED <<conn, collection, model, log, call, request, pc, cs, events,
                   yielded, backend, client>>

\* init_vectorstore(): the collection is opened, or created empty; or
\* Chroma raises.
InitVectorstore ==
    /\ app = "embedding_ready"
    /\ \/ \E col \in StartupCollections :
             collection' = col /\ app' = "vectorstore_ready"
       \/ collection' = collection /\ app' = "failed"
    /\ UNCHANGED <<conn, embedder, model, log, call, request, pc, cs, events,
                   yielded, backend, client>>

\* load_model(), then "All services ready." and the yield.  A file that is
\* there but is not JSON makes json.load raise, which nothing catches.
LoadModel ==
    /\ app = "vectorstore_ready"
    /\ \/ \E files \in StartupFiles :
             /\ conn' = load_model(files).conn
             /\ model' = load_model(files).model
             /\ app' = "serving"
       \/ UNCHANGED <<conn, model>> /\ app' = "failed"
    /\ UNCHANGED <<collection, embedder, log, call, request, pc, cs, events,
                   yielded, backend, client>>

\* A chat request served by the started application, up to its prompt.
Serve ==
    /\ app = "serving"
    /\ log = <<>>
    /\ \E req \in ContextRequests :
          log' = <<[args |-> req,
                    result |-> chat_context(conn, collection, embedder, model, req)]>>
    /\ UNCHANGED <<resources, call, request, pc, cs, events, yielded, backend,
                   client>>

NextStartup ==
    \/ LoadEmbeddingModel
    \/ InitVectorstore
    \/ LoadModel
    \/ Serve

SpecStartup == InitStartup /\ [][NextStartup]_vars

\* C16: readiness is all-or-nothing: a request is served only by a
\* process whose Analytics Store, Knowledge Index and embedding backend are
\* all loaded.
C16_ServesOnlyFullyLoaded ==
    log # <<>> =>
        /\ conn.initialised
        /\ collection.initialised
        /\ embedder = "loaded"

----------------------------------------------------------------------------
(* Spec, continued: caller input.                                          *)

\* A state as a caller may give it: none, or a two-letter state code.
ValidState(s) == s = "" \/ s \in all_states

\* C17: a chat request with invalid caller input (a state that is not a
\* two-letter state code) is rejected before any downstream work: the
\* forecast is not looked up (step 1b, which follows the lookup, is never
\* announced), the classifier and the engine are not called, and no
\* generation backend is called for it.
C17_InvalidInputRejected ==
    (pc # "idle" /\ ~ValidState(request.state)) =>
        /\ StatusAnalyzing \notin Range(yielded)
        /\ call.op = "none"
        /\ backend.calls = 0

----------------------------------------------------------------------------
(* SpecContext, continued: repeated requests.                              *)

SameContext(a, b) ==
    /\ a.sql_context = b.sql_context
    /\ a.forecast_context = b.forecast_context
    /\ a.prediction_context = b.prediction_context

----------------------------------------------------------------------------
(* SpecSql, continued: the rows init_db loaded.                            *)

----------------------------------------------------------------------------
(* SpecRouter, continued: the scope keywords of the top-risk rule.         *)

RanTopRisk == IsRouted /\ call.ran.op = "query_top_risk_combos"

\* The scope keywords as the claim lists them, the numerals being those
\* the rule knows.
ClaimedScopeKeywords ==
    {<<"city">>, <<"state">>, <<"combined">>, <<"overall">>,
     <<"10">>, <<"5">>, <<"ten">>, <<"five">>}

\* C20 as stated: query_top_risk_combos runs only for a question with a
\* ranking keyword and one of the scope keywords "city", "state",
\* "combined", "overall", a numeral or the numeral's word form.
C20_TopRiskNeedsClaimedScope ==
    RanTopRisk =>
        /\ _match(call.args[1], _TOP_RANK)
        /\ _match(call.args[1], ClaimedScopeKeywords)

\* C20: query_top_risk_combos runs only for a question with a ranking
\* keyword and one of the scope keywords "city", "state", "combined",
\* "overall", "weighted", "10", "5", "ten", "five".
C20_TopRiskNeedsScope ==
    RanTopRisk =>
        /\ _match(call.args[1], _TOP_RANK)
        /\ _match(call.args[1],
                  ClaimedScopeKeywords \cup {<<"weighted">>})

\* Questions with a ranking keyword were routed: one with a scope keyword
\* ran the top-risk operation, and this one, without any, did not.
C20_Witness ==
    /\ IsRouted
    /\ _match(call.args[1], _TOP_RANK)
    /\ ~_match(call.args[1], ClaimedScopeKeywords \cup {<<"weighted">>})
    /\ call.ran.op # "query_top_risk_combos"

----------------------------------------------------------------------------
(* SpecRouter, continued: a portfolio question without states.             *)

\* The question reaches the portfolio rule, holds a portfolio keyword, and
\* no state list resolves from it.
PortfolioUnresolved ==
    /\ IsRouted
    /\ ~TopRiskRule(call.args[1])
    /\ ~PrepositionRule(call.args[1])
    /\ _match(call.args[1], _PORTFOLIO)
    /\ _extract_region_states(call.args[1]) = <<>>
    /\ _extract_states(call.args[1]) = <<>>

\* C21 as stated: a question with a portfolio keyword from which no state
\* list resolves runs no analytics operation at all, whatever later
\* keyword sets it matches.
C21_UnresolvedPortfolioRunsNothing ==
    PortfolioUnresolved => call.ran = NoCall

\* C21: a question with a portfolio keyword from which no state list
\* resolves never runs query_portfolio; it goes on to the later rules, and
\* runs query_variance, query_demand_surge or query_sector_ranking as the
\* first of their keyword sets that matches decides, and nothing when none
\* matches.
C21_UnresolvedPortfolioFallsThrough ==
    PortfolioUnresolved =>
        LET text == call.args[1]
        IN  call.ran.op =
                IF _match(text, _VARIANCE) THEN "query_variance"
                ELSE IF _match(text, _DEMAND_SURGE) THEN "query_demand_surge"
                ELSE IF _match(text, _SECTOR_RANK) \/ _match(text, _TOP_RANK)
                THEN "query_sector_ranking"
                ELSE "none"

\* A portfolio question without states that holds a variance keyword ran
\* query_variance.
C21_Witness ==
    /\ PortfolioUnresolved
    /\ _match(call.args[1], _VARIANCE)
    /\ call.ran.op = "query_variance"

----------------------------------------------------------------------------
(* SpecVariance: query_variance on stores of up to four loss rows, two     *)
(* counties by two sectors, whose recovery_months make ranges on both      *)
(* sides of the two thresholds and on them.                                *)

\* 12 - 2 = 10, 11 - 2 = 9, 7 - 2 = 5 and 6 - 2 = 4 months.
RecoveryValues == {2, 6, 7, 11, 12}

VarianceKeys == {"12001", "22071"} \X FileSectors

\* A predictions file: for each county and sector no record, or a
\* hurricane loss record with or without recovery_months.
VarianceFiles ==
    UNION {{{[fips_code |-> k[1], disaster_type |-> "hurricane",
              sector |-> k[2],
              data |-> Data(Some(10), None, f[k], None)] : k \in K} :
                f \in [K -> {None} \cup {Some(v) : v \in RecoveryValues}]} :
           K \in SUBSET VarianceKeys}

InitVariance == \E P \in VarianceFiles : Idle(init_db(P, {}))

NextVariance == QueryVariance

SpecVariance == InitVariance /\ [][NextVariance]_vars

\* max - min of the recovery_months of a sector, in tenths of a month.
RangeOf(sector) ==
    LET V == {r.recovery_months[1] : r \in RecoveryRowsOf(sector)}
    IN  10 * ((CHOOSE a \in V : \A b \in V : a >= b)
              - (CHOOSE a \in V : \A b \in V : a <= b))

\* C23: query_variance labels each listed sector by the range max - min of
\* its recovery_months: HIGH when the range is over 9 months, MEDIUM when
\* it is over 4 and at most 9, LOW when it is at most 4; the sectors are
\* listed in non-increasing order of range.
C23_VarianceLabels ==
    IsCall("query_variance") =>
        LET lines == LinesOf(call.result.text, "sector")
        IN  /\ \A i \in 1..Len(lines) :
                  LET range == RangeOf(lines[i].row.sector)
                  IN  /\ lines[i].row.range_months = range
                      /\ lines[i].reliability =
                            IF range > 90 THEN "HIGH variance"
                            ELSE IF range > 40 /\ range <= 90
                            THEN "MEDIUM variance"
                            ELSE "LOW variance"
            /\ \A i, j \in 1..Len(lines) :
                  i < j => lines[i].row.range_months >= lines[j].row.range_months

\* One sector with a range of exactly 9 months is listed as MEDIUM above
\* one with a range of exactly 4 months listed as LOW.
C23_Witness ==
    /\ IsCall("query_variance")
    /\ LET lines == LinesOf(call.result.text, "sector")
       IN  /\ Len(lines) = 2
           /\ lines[1].row.range_months = 90
           /\ lines[1].reliability = "MEDIUM variance"
           /\ lines[2].row.range_months = 40
           /\ lines[2].reliability = "LOW variance"

----------------------------------------------------------------------------
(* SpecSimilarity: retrieve on an index of one chunk at any distance of    *)
(* the cosine space.  The collection is created with "hnsw:space" cosine:  *)
(* the distance of a chunk is 1 - cos, from 0 (same direction) through 1   *)
(* (orthogonal) to 2 (opposite), here in hundred-thousandths.              *)

CosineDistances == {0, 25000, 100000, 150000, 200000}

CosineChunks ==
    [category : KBCategories, state : {"", "FL"},
     disaster_type : {"", "hurricane"}, distance : CosineDistances]

InitSimilarity ==
    \E c \in CosineChunks : Loaded(NotInitialised, Collection({c}), "loaded", NoModel)

NextSimilarity == Retrieve

SpecSimilarity == InitSimilarity /\ [][NextSimilarity]_vars

\* C24: every chunk retrieve returns has similarity = 1 - distance, and
\* the similarity lies between 0 and 1 (in ten-thousandths, between 0 and
\* 10000) whatever distance the cosine index returned.
C24_SimilarityInUnitRange ==
    IsRetrieved =>
        \A i \in 1..Len(call.result.text) :
            LET chunk == call.result.text[i]
            IN  /\ 10 * chunk.similarity = 100000 - chunk.metadata.distance
                /\ 0 <= chunk.similarity
                /\ chunk.similarity <= 10000

----------------------------------------------------------------------------
(* SpecRouter, continued: the caller's filters.                            *)

\* C25: when the caller supplies a state or a disaster type, the operation
\* route_and_query runs is given the caller's value, not one read from the
\* question: the disaster type of the portfolio, demand-surge and
\* sector-ranking rules, the state of the sector-ranking rule and the state
\* list of the portfolio rule.
C25_CallerFiltersPreferred ==
    IsRouted =>
        LET state == call.args[2]
            disaster_type == call.args[3]
            ran == call.ran
        IN  /\ disaster_type # "" /\ ran.op = "query_portfolio"
                  => ran.args[2] = disaster_type
            /\ disaster_type # "" /\ ran.op = "query_demand_surge"
                  => ran.args[1] = disaster_type
            /\ disaster_type # "" /\ ran.op = "query_sector_ranking"
                  => ran.args[2] = disaster_type
            /\ state # "" /\ ran.op = "query_sector_ranking"
                  => ran.args[1] = state
            /\ state # "" /\ ran.op = "query_portfolio"
                  => ran.args[1] = <<state>>

----------------------------------------------------------------------------
(* Spec, continued: a failure of the router or the engine in step 2.       *)

RouterRaised == call.op = "route_and_query" /\ call.result.raised

ErrorEvents == {i \in 1..Len(events) : events[i].kind = "error"}

\* C26: an exception of route_and_query, the RuntimeError of a store that
\* was never initialised included, is not shown to the caller: chat_stream
\* goes on to announce the knowledge-base search, an [ERROR] event comes
\* only from a retrieval that fails or from the generation step, and the
\* status "Running structured data analysis" is yielded exactly when
\* route_and_query returned a non-empty result.
C26_RouterFailureSwallowed ==
    call.op = "route_and_query" =>
        /\ StatusStructured \in Range(yielded)
              <=> (~call.result.raised /\ call.result.text # <<>>)
        /\ call.result.raised =>
              /\ StatusSearching \in Range(yielded)
              /\ ErrorEvents # {} =>
                    \/ request.retrieve = "raises"
                    \/ StatusGenerating \in Range(yielded)
              /\ \A i \in ErrorEvents : events[i].data # "route_and_query"

\* On a store that was never initialised the router raised, and the stream
\* went on to deliver a generated token and ended without an error event.
C26_Witness ==
    /\ RouterRaised
    /\ ~conn.initialised
    /\ StatusGenerating \in Range(yielded)
    /\ ContentOf(yielded) # <<>>
    /\ ErrorEvents = {}
    /\ pc = "finished"

----------------------------------------------------------------------------
(* Spec, continued: what a request leaves behind in the process.           *)

\* C27: no step of a chat request changes process-wide state: the
\* Analytics Store, the prediction and forecast dictionaries, the
\* knowledge-index handle, the embedding model and the client handle of the
\* generation backend are after the step what they were before it.
C27_RequestsLeaveProcessStateUnchanged ==
    [][/\ UNCHANGED resources
       /\ backend.anthropic_client' = backend.anthropic_client]_vars

----------------------------------------------------------------------------
(* SpecPreposition: query_preposition on stores with up to three forecast  *)
(* pairs (FL and LA hurricanes, FL floods) and up to four Construction     *)
(* records, two of them in one pair.                                       *)

PrepositionEntries ==
    {<<"12001", "hurricane">>, <<"12086", "hurricane">>,
     <<"22071", "hurricane">>, <<"12001", "flood">>}

PrepositionData ==
    {Data(Some(30), None, Some(12), None), Data(Some(10), None, Some(2), None),
     Data(None, Some(5), None, Some(3))}

PrepositionPredictions ==
    UNION {{{[fips_code |-> e[1], disaster_type |-> e[2],
              sector |-> "Construction", data |-> f[e]] : e \in E} :
                f \in [E -> PrepositionData]} :
           E \in SUBSET PrepositionEntries}

PrepositionKeys ==
    {<<"FL", "Hurricane">>, <<"LA", "Hurricane">>, <<"FL", "Flood">>}

PrepositionForecasts ==
    UNION {{{[key |-> k, predicted_counts |-> f[k]] : k \in K} :
                f \in [K -> ProphetCounts]} :
           K \in SUBSET PrepositionKeys}

InitPreposition ==
    \E P \in PrepositionPredictions, F \in PrepositionForecasts :
        Idle(init_db(P, F))

NextPreposition == QueryPreposition

SpecPreposition == InitPreposition /\ [][NextPreposition]_vars

\* The loss rows of a (state, disaster_type) pair.
PairLossRows(state, disaster_type) ==
    {r \in conn.employment_impact :
        /\ r.state = state /\ r.disaster_type = disaster_type
        /\ r.job_loss_pct # None}

\* The pairs in both relations with a forecast frequency above 0 and at
\* least one loss value.
PrepositionPairs ==
    {<<d.state, d.disaster_type>> :
        d \in {x \in conn.disaster_forecast :
                  /\ x.avg_next_12 # None
                  /\ x.avg_next_12[1] > 0
                  /\ PairLossRows(x.state, x.disaster_type) # {}}}

\* avg_next_12 x mean(job_loss_pct) of a pair, in tenths.
PriorityOf(pair) ==
    LET d == CHOOSE x \in conn.disaster_forecast :
                 <<x.state, x.disaster_type>> = pair
        L == PairLossRows(pair[1], pair[2])
    IN  RoundDiv(SumField(L, "job_loss_pct") * d.avg_next_12[1],
                 Cardinality(L) * 100)

\* C28: query_preposition(limit=N) returns at most N rows, one per (state,
\* disaster_type) pair that is in both relations with a forecast frequency
\* above 0 and at least one non-null job_loss_pct, no pair twice, in
\* non-increasing order of priority = avg_next_12 x mean(job_loss_pct);
\* the pairs left out by the limit have no higher priority than the ones
\* listed.
C28_Preposition ==
    IsCall("query_preposition") =>
        LET N == call.args[1]
            lines == LinesOf(call.result.text, "pair")
            pair(i) == <<lines[i].row.state, lines[i].row.disaster_type>>
            listed == {pair(i) : i \in 1..Len(lines)}
        IN  /\ ~call.result.raised
            /\ Len(lines) =< N
            /\ \A i, j \in 1..Len(lines) : pair(i) = pair(j) => i = j
            /\ listed \subseteq PrepositionPairs
            /\ \A i \in 1..Len(lines) :
                  lines[i].row.priority_score = PriorityOf(pair(i))
            /\ \A i, j \in 1..Len(lines) :
                  i < j => lines[i].row.priority_score
                              >= lines[j].row.priority_score
            /\ Len(lines) < N => listed = PrepositionPairs
            /\ \A p \in PrepositionPairs \ listed :
                  \A q \in listed : PriorityOf(q) >= PriorityOf(p)

\* Three pairs qualify, the limit is 2, and the two rows returned are in
\* strictly decreasing priority, above the pair left out, the first of
\* them the mean of two counties.
C28_Witness ==
    /\ IsCall("query_preposition")
    /\ call.args[1] = 2
    /\ Cardinality(PrepositionPairs) = 3
    /\ LET lines == LinesOf(call.result.text, "pair")
       IN  /\ Len(lines) = 2
           /\ lines[1].row.priority_score > lines[2].row.priority_score
           /\ \A p \in PrepositionPairs :
                 PriorityOf(p) < lines[2].row.priority_score
                    \/ p \in {<<lines[i].row.state, lines[i].row.disaster_type>> :
                                i \in 1..2}
           /\ Cardinality(PairLossRows(lines[1].row.state,
                                       lines[1].row.disaster_type)) = 2

----------------------------------------------------------------------------
(* SpecAggregate: get_prediction_by_state on dictionaries of up to two FL  *)
(* counties by two sectors and one AL county, a sector's data carrying a   *)
(* loss, a gain, both or neither.                                          *)

AggregateEntries ==
    ({"12001", "12086"} \X FileSectors) \cup {<<"01001", "Construction">>}

AggregateData ==
    {Data(Some(30), None, Some(12), None), Data(Some(10), None, None, None),
     Data(None, Some(5), None, Some(3)), Data(None, Some(8), None, None),
     Data(Some(30), Some(5), Some(12), Some(3)), Data(None, None, None, None)}

\* The AL county, when the file has it, carries a loss.
AggregateFiles ==
    UNION {{{[fips_code |-> e[1], disaster_type |-> "hurricane",
              sector |-> e[2], data |-> f[e]] : e \in E} :
                f \in {g \in [E -> AggregateData] :
                          \A e \in E : e[1] = "01001" =>
                              g[e] = Data(Some(30), None, Some(12), None)}} :
           E \in SUBSET AggregateEntries}

InitAggregate ==
    \E P \in AggregateFiles :
        LET l == load_model(FilesOnDisk(Some(P), Some({}), FALSE, "no"))
        IN  Loaded(l.conn, NoCollection, "loaded", l.model)

GetPredictionByState ==
    /\ call.op = "none"
    /\ \E d \in {"hurricane", "Hurricane", "flood"}, s \in {"FL", "fl", "AL"} :
          call' = [op |-> "get_prediction_by_state", args |-> <<d, s>>,
                   ran |-> NoCall,
                   result |-> get_prediction_by_state(model, d, s)]
    /\ UNCHANGED <<resources, log, request, pc, cs, events, yielded, backend, client>>

NextAggregate == GetPredictionByState

SpecAggregate == InitAggregate /\ [][NextAggregate]_vars

IsAggregated == call.op = "get_prediction_by_state" /\ call.result # None

\* The sectors with a job_loss_pct or a job_change_pct in some county of
\* the state and disaster type asked for.
SectorsWithSignal ==
    {i.sector :
        i \in {x \in model.precomputed :
                  /\ x.disaster_type = Lower(call.args[1])
                  /\ Get(StateOfFips, Prefix2(x.fips_code), "") = Upper(call.args[2])
                  /\ (x.data.job_loss_pct # None \/ x.data.job_change_pct # None)}}

\* C29: each sector entry of the aggregate get_prediction_by_state returns
\* carries exactly one of job_loss_pct, with recovery_months, and
\* job_change_pct, with peak_month; the sectors listed are those with a
\* loss or a gain in some county, a sector without either is left out.
C29_OneSignalPerSector ==
    IsAggregated =>
        LET P == call.result[1].predictions
        IN  /\ \A p \in P :
                  \/ /\ p.data.job_loss_pct # None
                     /\ p.data.recovery_months # None
                     /\ p.data.job_change_pct = None
                     /\ p.data.peak_month = None
                  \/ /\ p.data.job_change_pct # None
                     /\ p.data.peak_month # None
                     /\ p.data.job_loss_pct = None
                     /\ p.data.recovery_months = None
            /\ {p.sector : p \in P} = SectorsWithSignal
            /\ \A p, q \in P : p.sector = q.sector => p = q

\* One sector has a loss in one county and a gain in the other and is
\* listed with its loss; the other sector has no signal in any county and
\* is not listed.
C29_Witness ==
    /\ IsAggregated
    /\ \E i, j \in model.precomputed :
          /\ i.sector = "Construction" /\ j.sector = "Construction"
          /\ i.data.job_loss_pct # None /\ i.data.job_change_pct = None
          /\ j.data.job_loss_pct = None /\ j.data.job_change_pct # None
    /\ \E i \in model.precomputed : i.sector = "Healthcare"
    /\ {p.sector : p \in call.result[1].predictions} = {"Construction"}
    /\ \A p \in call.result[1].predictions : p.data.job_loss_pct # None

----------------------------------------------------------------------------
(* SpecAggregate, continued: the state of a record in the two stores.      *)
(* init_db files a record under FIPS_STATE_MAP of sql_engine.py,           *)
(* load_model indexes it under FIPS_STATE_MAP of model_service.py; the     *)
(* first table has 29 prefixes, the second 51.                             *)

\* C30: the Analytics Store and the prediction dictionaries agree on the
\* state of each record: the state of an employment_impact row is the
\* state under which load_model indexes the record's county.
C30_StoresAgreeOnState ==
    conn.initialised =>
        \A r \in conn.employment_impact :
            r.state = Get(StateOfFips, Prefix2(r.fips_code), "")

----------------------------------------------------------------------------
(* SpecTopRisk: query_top_risk_combos on the stores of SpecPreposition,    *)
(* loaded by load_model: model keeps the entries as the files have them,   *)
(* conn the rows init_db made of them.                                     *)

InitTopRisk ==
    \E P \in PrepositionPredictions, F \in PrepositionForecasts :
        LET l == load_model(FilesOnDisk(Some(P), Some(F), FALSE, "no"))
        IN  Loaded(l.conn, NoCollection, "loaded", l.model)

NextTopRisk == QueryTopRiskCombos

SpecTopRisk == InitTopRisk /\ [][NextTopRisk]_vars

\* The entries of the forecast file that carry no predicted counts, as the
\* (state, disaster_type) pairs init_db files them under.
MissingForecasts ==
    {<<ForecastRow(f).state, ForecastRow(f).disaster_type>> :
        f \in {x \in model.prophet_forecasts :
                  Len(x.key) = 2 /\ x.predicted_counts = <<>>}}

ComboRows ==
    {call.result.text[i].row :
        i \in {n \in DOMAIN call.result.text :
                  call.result.text[n].kind = "combo"}}

\* C22: no row of query_top_risk_combos belongs to a (state,
\* disaster_type) forecast whose source entry has no predicted counts: a
\* missing forecast is left out of the join, it does not show as frequency
\* 0 and risk_score 0.
C22_MissingForecastExcluded ==
    call.op = "query_top_risk_combos" =>
        \A r \in ComboRows : <<r.state, r.disaster_type>> \notin MissingForecasts
============================================================================
